---- MODULE Spec2Model ----
(***************************************************************************)
(* Verification model of the Lark Base snapshot service:                   *)
(*   - LarkApiClient   (pagination, fallbacks, batch create, URL parsing)  *)
(*   - SnapshotService (createSnapshot / processTable)                     *)
(*   - POST /api/snapshot route                                            *)
(* Three specifications share one set of variables:                        *)
(*   Spec      the route handler driving createSnapshot, one step per      *)
(*             vendor call                                                 *)
(*   SpecList  one invocation of listTables / listFields / listRecords,    *)
(*             one step per page request                                   *)
(*   SpecBatch one invocation of createRecords, one step per batch request *)
(***************************************************************************)
EXTENDS Integers, Sequences, FiniteSets, TLC

(***************************************************************************)
(* Bounds of the model                                                     *)
(***************************************************************************)
MaxTables == 2
MaxTablePages == 12
MaxBatchRecords == 1001

(***************************************************************************)
(* Program constants                                                       *)
(***************************************************************************)
BATCH_SIZE == 500
MAX_PAGES_FIELDS == 10
MAX_PAGES_RECORDS == 100

(***************************************************************************)
(* Error messages produced by LarkApiClient.request / getAccessToken /     *)
(* parseBaseUrl / createTable.  A message is a string; Includes models     *)
(* String.prototype.includes for the four needles the fallbacks test.      *)
(***************************************************************************)
EPermCode == "API Error: Forbidden (code: 1254002)"
EPermMsg == "API Error: no permission (code: 91403)"
ETimeout == "Request timeout: /path"
EHttp == "HTTP Error: 500 Internal Server Error for /path"
ETokenFail == "Failed to get access token: app not found"
EInvalidUrl == "Invalid Base URL format"

\* with an API error the fallbacks do not react to and a network failure
VendorErrors ==
  {EPermCode, EPermMsg, "API Error: internal error (code: 1254001)", ETimeout, EHttp,
   "fetch failed", ETokenFail}

Includes(msg, needle) ==
  CASE msg = EPermCode -> needle = "1254002"
    [] msg = EPermMsg -> needle = "permission"
    [] msg = ETimeout -> needle = "timeout"
    [] msg = ETokenFail -> needle = "Fail"
    [] OTHER -> FALSE

\* outcome of one request(): "ok" or the message of the Error it throws
Outcomes == {"ok"} \cup VendorErrors

\* for the calls whose errors are handled alike whatever the message
PlainOutcomes == {"ok", EHttp}

(***************************************************************************)
(* URLs.  A URL is a sequence of segments; a segment [k, v] stands for the *)
(* text  "/base/v", "app_token=v", "/bitable/v", "/wiki/v", "?table=v" or  *)
(* anything else.  v = "" means no alphanumeric character follows.         *)
(***************************************************************************)
Seg(k, v) == [k |-> k, v |-> v]

\* leftmost match of the regular expression for segment kind k, "" if none
FirstMatch(url, k) ==
  LET hits == {i \in 1..Len(url) : url[i].k = k /\ url[i].v # ""}
  IN IF hits = {} THEN ""
     ELSE url[CHOOSE i \in hits : \A j \in hits : i <= j].v

\* variant: the query-parameter pattern is tried first
parseBaseUrl_queryFirst(url) ==
  IF FirstMatch(url, "app_token") # "" THEN [ok |-> TRUE, val |-> FirstMatch(url, "app_token")]
  ELSE IF FirstMatch(url, "base") # "" THEN [ok |-> TRUE, val |-> FirstMatch(url, "base")]
  ELSE IF FirstMatch(url, "bitable") # "" THEN [ok |-> TRUE, val |-> FirstMatch(url, "bitable")]
  ELSE IF FirstMatch(url, "wiki") # "" THEN [ok |-> TRUE, val |-> FirstMatch(url, "wiki")]
  ELSE [ok |-> FALSE, val |-> EInvalidUrl]

parseBaseUrl(url) ==
  IF FirstMatch(url, "base") # "" THEN [ok |-> TRUE, val |-> FirstMatch(url, "base")]
  ELSE IF FirstMatch(url, "app_token") # "" THEN [ok |-> TRUE, val |-> FirstMatch(url, "app_token")]
  ELSE IF FirstMatch(url, "bitable") # "" THEN [ok |-> TRUE, val |-> FirstMatch(url, "bitable")]
  ELSE IF FirstMatch(url, "wiki") # "" THEN [ok |-> TRUE, val |-> FirstMatch(url, "wiki")]
  ELSE [ok |-> FALSE, val |-> EInvalidUrl]

\* null is modelled as "" (the regular expression never yields an empty id)
parseTableIdFromUrl(url) == FirstMatch(url, "table")

\* o is the outcome of the getWikiNodeInfo request, made only for Wiki URLs
resolveBaseAppToken(url, o) ==
  IF FirstMatch(url, "wiki") # "" /\ o = "ok"
  THEN [ok |-> TRUE, val |-> "objTok"]
  ELSE parseBaseUrl(url)

UrlInvalid == <<Seg("other", "host"), Seg("base", "")>>
Urls ==
  {<<Seg("other", "host"), Seg("base", "app1")>>,
   <<Seg("other", "host"), Seg("base", "app1"), Seg("table", "tblX")>>,
   <<Seg("other", "host"), Seg("wiki", "wik1"), Seg("table", "tbl1")>>,
   UrlInvalid}

(***************************************************************************)
(* Field classification (only what createSnapshot's counters need)         *)
(***************************************************************************)
\* variant: attachments are not in the list
DYNAMIC_FIELD_TYPES_noAttachment ==
  {"SingleLink", "DuplexLink", "Lookup", "Formula", "User", "CreatedUser", "ModifiedUser"}

DYNAMIC_FIELD_TYPES ==
  {"SingleLink", "DuplexLink", "Lookup", "Formula", "User", "CreatedUser",
   "ModifiedUser", "Attachment"}

UNSUPPORTED_FIELD_TYPES ==
  {"Rating", "Stage", "Currency", "Email", "Location", "Barcode", "Button",
   "AutoNumber"}

UNSUPPORTED_TYPE_NUMBERS ==
  {11, 18, 19, 20, 21, 1001, 1002, 1003, 1004, 1005, 24, 1050, 1051, 22, 23, 3001}

isDynamic(f) ==
  f.ui_type \in DYNAMIC_FIELD_TYPES \/ f.type \in {11, 18, 19, 20, 21, 1003, 1004}

\* number of this.fieldsConverted++ executed by convertFieldDefinitions
CountConverted(fields) ==
  LET isRewritten(f) ==
        \/ isDynamic(f)
        \/ f.ui_type \in UNSUPPORTED_FIELD_TYPES \/ f.type \in UNSUPPORTED_TYPE_NUMBERS
  IN Cardinality({i \in 1..Len(fields) : isRewritten(fields[i])})

FieldLists ==
  {<<>>,
   <<[field_name |-> "A", type |-> 1, ui_type |-> "Text"],
     [field_name |-> "B", type |-> 18, ui_type |-> "SingleLink"]>>}

(***************************************************************************)
(* Vendor data                                                             *)
(***************************************************************************)
TableLists ==
  LET SrcTable(i) ==
        [table_id |-> IF i = 1 THEN "tbl1" ELSE IF i = 2 THEN "tbl2" ELSE "tbl3",
         name |-> IF i = 1 THEN "T1" ELSE IF i = 2 THEN "T2" ELSE "T3",
         revision |-> 1]
  IN {[i \in 1..n |-> SrcTable(i)] : n \in 0..MaxTables}

\* the date suffix is that of the day of the run
SnapshotTableName(name) == name \o "_snap_" \o "20260101"

EmptyBase == [app_token |-> "", name |-> ""]

VARIABLES
  req, http,
  pc, config, sourceAppToken, tableIdFromUrl, sourceBase, targetBase,
  sourceTables, listedTables, tblIdx, sourceFields, errors, fieldsConverted,
  totalRecordsProcessed, currentUser, result, calls,
  lsOp, lsPc, pageToken, prevPageToken, pageCount, lsItems, lsResult,
  lsSent, lsHasMore, lsRequests, lsServed,
  crPc, crRecords, crI, crRequests,
  puUrl, puResult,
  cfPc, fetchedFields, fetchedHeap, objHeap, convertedFields,
  rcPc, rcRecord, rcTargetNames, rcConverted,
  isServerless, tokenStore, sessionFile, now, storeLog, authState,
  stateStore, cookies, pending, oauthLog

routeVars == <<req, http>>
snapVars == <<pc, config, sourceAppToken, tableIdFromUrl, sourceBase, targetBase,
              sourceTables, listedTables, tblIdx, sourceFields, errors, fieldsConverted,
              totalRecordsProcessed, currentUser, result, calls>>
listVars == <<lsOp, lsPc, pageToken, prevPageToken, pageCount, lsItems, lsResult,
              lsSent, lsHasMore, lsRequests, lsServed>>
batchVars == <<crPc, crRecords, crI, crRequests>>
fieldVars == <<cfPc, fetchedFields, fetchedHeap, objHeap, convertedFields>>
recordVars == <<rcPc, rcRecord, rcTargetNames, rcConverted>>
authVars == <<isServerless, tokenStore, sessionFile, now, storeLog, authState>>
oauthVars == <<stateStore, cookies, pending, oauthLog>>
unitVars == <<puUrl, puResult, fieldVars, recordVars, authVars, oauthVars>>
vars == <<routeVars, snapVars, listVars, batchVars, unitVars>>

(***************************************************************************)
(* Outcomes of client operations: a returned value or a raised Error       *)
(***************************************************************************)
Ok(items) == [ok |-> TRUE, msg |-> "", items |-> items]
Err(m) == [ok |-> FALSE, msg |-> m, items |-> <<>>]

\* one message of each class the list fallbacks tell apart, for the calls
\* made inside the table loop
LoopListErrs == {Err(m) : m \in {EPermCode, ETimeout, EHttp}}

Call(op, tbl, res, n) == [op |-> op, tbl |-> tbl, res |-> res, n |-> n]
ResOf(o) == IF o.ok THEN "ok" ELSE o.msg

(***************************************************************************)
(* LarkApiClient: fallbacks                                                *)
(***************************************************************************)
\* o is the outcome of the single-table request; a successful response is
\* taken to carry the table it was asked for
getTable(o, tableId) ==
  IF o = "ok"
  THEN [table_id |-> tableId, name |-> "Fetched", revision |-> 1]
  ELSE [table_id |-> tableId, name |-> "Table " \o tableId, revision |-> 0]

\* variant: only the vendor's permission code triggers the fallback
TablesFallbackApplies_codeOnly(errMsg, tableIdFromUrl_) ==
  /\ tableIdFromUrl_ # ""
  /\ Includes(errMsg, "1254002")

TablesFallbackApplies(errMsg, tableIdFromUrl_) ==
  /\ tableIdFromUrl_ # ""
  /\ (Includes(errMsg, "1254002") \/ Includes(errMsg, "permission") \/ Includes(errMsg, "Fail"))

\* o1: outcome of listTables, o2: outcome of the getTable request
listTablesWithFallback(o1, o2, tableIdFromUrl_) ==
  IF o1.ok THEN o1
  ELSE IF TablesFallbackApplies(o1.msg, tableIdFromUrl_)
       THEN Ok(<<getTable(o2, tableIdFromUrl_)>>)
       ELSE o1

ListFallbackApplies(errMsg) ==
  \/ Includes(errMsg, "1254002")
  \/ Includes(errMsg, "permission")
  \/ Includes(errMsg, "Fail")
  \/ Includes(errMsg, "timeout")

\* o: outcome of listFields
listFieldsWithFallback(o) ==
  IF o.ok THEN o ELSE IF ListFallbackApplies(o.msg) THEN Ok(<<>>) ELSE o

\* o: outcome of listRecords
listRecordsWithFallback(o) ==
  IF o.ok THEN o ELSE IF ListFallbackApplies(o.msg) THEN Ok(<<>>) ELSE o

\* o: outcome of the user_info request, shape: what the response body holds
getCurrentUser(o, shape) ==
  IF o = "ok" /\ shape = "user"
  THEN [raised |-> FALSE, msg |-> "", user_id |-> "u1"]
  ELSE [raised |-> FALSE, msg |-> "", user_id |-> ""]

\* o: outcome of the members request (issued only for a non-empty user id)
addCollaborator(userId, o) ==
  [raised |-> FALSE, msg |-> "", requested |-> userId # ""]

\* o: outcome of the create-table request, shape: what the response body holds
createTable(o, shape) ==
  IF o # "ok" THEN Err(o)
  ELSE IF shape \in {"table", "table_id"} THEN Ok(<<"tgtTbl">>)
  ELSE Err("createTable: No table data in response")

(***************************************************************************)
(* Request configurations                                                  *)
(***************************************************************************)
Authenticated(r) == r.session /\ r.tokens = "valid"

NoResult == [success |-> FALSE, sourceBase |-> EmptyBase, targetBase |-> EmptyBase,
             tablesProcessed |-> -1, recordsProcessed |-> -1, fieldsConverted |-> -1,
             errors |-> <<>>]
NoResponse == [status |-> 0, body |-> NoResult]

\* the state before anything has run, part by part: the HTTP handler
\* ("route"), createSnapshot ("snap"), a list operation ("list"),
\* createRecords ("batch"), and URL parsing ("url"), field conversion
\* ("fields"), record conversion ("record"), the token store ("auth") and
\* the OAuth routes ("oauth") while they are not exercised
Idle(parts) ==
  /\ IF "route" \in parts
     THEN /\ req = [session |-> FALSE, tokens |-> "none", hasUrl |-> FALSE, hasName |-> FALSE]
          /\ http = NoResponse /\ pc = "idle"
          /\ config = [sourceBaseUrl |-> UrlInvalid, grantAdminPermission |-> FALSE,
                       selectedTableIds |-> {}]
     ELSE TRUE
  /\ IF "snap" \in parts
     THEN /\ sourceAppToken = "" /\ tableIdFromUrl = ""
          /\ sourceBase = EmptyBase /\ targetBase = EmptyBase
          /\ sourceTables = <<>> /\ listedTables = <<>> /\ tblIdx = 0 /\ sourceFields = <<>>
          /\ errors = <<>> /\ fieldsConverted = 0 /\ totalRecordsProcessed = 0
          /\ currentUser = "" /\ result = NoResult /\ calls = <<>>
     ELSE TRUE
  /\ IF "list" \in parts
     THEN /\ lsOp = "none" /\ lsPc = "idle" /\ pageToken = "" /\ prevPageToken = ""
          /\ pageCount = 0 /\ lsItems = 0 /\ lsResult = -1
          /\ lsSent = "" /\ lsHasMore = FALSE /\ lsRequests = 0 /\ lsServed = 0
     ELSE TRUE
  /\ IF "batch" \in parts
     THEN crPc = "idle" /\ crRecords = <<>> /\ crI = 0 /\ crRequests = <<>>
     ELSE TRUE
  /\ IF "url" \in parts THEN puUrl = <<>> /\ puResult = <<>> ELSE TRUE
  /\ IF "fields" \in parts
     THEN /\ cfPc = "idle" /\ fetchedFields = <<>> /\ fetchedHeap = <<>> /\ objHeap = <<>>
          /\ convertedFields = <<>>
     ELSE TRUE
  /\ IF "record" \in parts
     THEN rcPc = "idle" /\ rcRecord = <<>> /\ rcTargetNames = {} /\ rcConverted = <<>>
     ELSE TRUE
  /\ IF "auth" \in parts
     THEN /\ isServerless = TRUE /\ tokenStore = <<>> /\ sessionFile = <<>> /\ now = 0
          /\ storeLog = <<>> /\ authState = <<>>
     ELSE TRUE
  /\ IF "oauth" \in parts
     THEN stateStore = <<>> /\ cookies = <<>> /\ pending = {} /\ oauthLog = <<>>
     ELSE TRUE

Init ==
  /\ req \in {[session |-> s, tokens |-> t, hasUrl |-> u, hasName |-> n] :
               s \in BOOLEAN, t \in {"none", "valid", "expired"}, u \in BOOLEAN,
               n \in BOOLEAN}
  /\ http = NoResponse
  /\ pc = "route"
  /\ config \in [sourceBaseUrl : Urls, grantAdminPermission : BOOLEAN,
                  selectedTableIds : {{}, {"tbl2"}}]
  /\ Idle({"oauth", "snap", "list", "batch", "url", "fields", "record", "auth"})

(***************************************************************************)
(* POST /api/snapshot                                                      *)
(***************************************************************************)
PostSnapshot ==
  /\ pc = "route"
  /\ IF ~req.session THEN http' = [status |-> 401, body |-> NoResult] /\ pc' = "end"
     ELSE IF req.tokens = "none" THEN http' = [status |-> 401, body |-> NoResult] /\ pc' = "end"
     ELSE IF req.tokens = "expired" THEN http' = [status |-> 401, body |-> NoResult] /\ pc' = "end"
     ELSE IF ~req.hasUrl \/ ~req.hasName THEN http' = [status |-> 400, body |-> NoResult] /\ pc' = "end"
     ELSE http' = http /\ pc' = "resolve"
  /\ UNCHANGED <<req, config, sourceAppToken, tableIdFromUrl, sourceBase, targetBase,
                 sourceTables, listedTables, tblIdx, sourceFields, errors, fieldsConverted,
                 totalRecordsProcessed, currentUser, result, calls>>
  /\ UNCHANGED <<unitVars, listVars, batchVars>>

\* variant: an unsuccessful snapshot is answered as a server error
RespondStatus_bySuccess(raised, res) == IF raised \/ ~res.success THEN 500 ELSE 200

\* res.json(result) answers 200; the handler's catch answers 500
RespondStatus(raised, res) == IF raised THEN 500 ELSE 200

Respond ==
  /\ pc \in {"returned", "raised"}
  /\ http' = [status |-> RespondStatus(pc = "raised", result),
              body |-> IF pc = "raised" THEN NoResult ELSE result]
  /\ pc' = "end"
  /\ UNCHANGED <<req, config, sourceAppToken, tableIdFromUrl, sourceBase, targetBase,
                 sourceTables, listedTables, tblIdx, sourceFields, errors, fieldsConverted,
                 totalRecordsProcessed, currentUser, result, calls>>
  /\ UNCHANGED <<unitVars, listVars, batchVars>>

(***************************************************************************)
(* SnapshotService.createSnapshot: top-level setup                         *)
(***************************************************************************)
\* variant: the fatal result is built like the normal one, from this.errors
FatalResult_fromErrors(msg) ==
  [success |-> Len(errors) = 0, sourceBase |-> EmptyBase, targetBase |-> EmptyBase,
   tablesProcessed |-> 0, recordsProcessed |-> 0, fieldsConverted |-> 0,
   errors |-> errors]

FatalResult(msg) ==
  [success |-> FALSE, sourceBase |-> EmptyBase, targetBase |-> EmptyBase,
   tablesProcessed |-> 0, recordsProcessed |-> 0, fieldsConverted |-> 0,
   errors |-> <<[table |-> "", message |-> msg]>>]

\* variant: the error leaves createSnapshot instead of being captured
TopLevelCatch_rethrow(msg) ==
  /\ pc' = "raised"
  /\ result' = result

\* the outer catch of createSnapshot
TopLevelCatch(msg) ==
  /\ pc' = "returned"
  /\ result' = FatalResult(msg)

ResolveSource ==
  /\ pc = "resolve"
  /\ \E o \in PlainOutcomes :
       LET isWiki == FirstMatch(config.sourceBaseUrl, "wiki") # ""
           r == resolveBaseAppToken(config.sourceBaseUrl, o)
       IN /\ (~isWiki => o = "ok")
          /\ calls' = IF isWiki THEN Append(calls, Call("getWikiNodeInfo", 0, o, 0)) ELSE calls
          /\ IF r.ok
             THEN /\ sourceAppToken' = r.val
                  /\ tableIdFromUrl' = parseTableIdFromUrl(config.sourceBaseUrl)
                  /\ pc' = "getBase"
                  /\ result' = result
             ELSE /\ TopLevelCatch(r.val)
                  /\ UNCHANGED <<sourceAppToken, tableIdFromUrl>>
  /\ UNCHANGED <<req, http, config, sourceBase, targetBase, sourceTables, listedTables, tblIdx,
                 sourceFields, errors, fieldsConverted, totalRecordsProcessed, currentUser>>
  /\ UNCHANGED <<unitVars, listVars, batchVars>>

GetBase ==
  /\ pc = "getBase"
  /\ \E o \in Outcomes :
       /\ calls' = Append(calls, Call("getBase", 0, o, 0))
       /\ IF o = "ok"
          THEN /\ sourceBase' = [app_token |-> sourceAppToken, name |-> "Source"]
               /\ pc' = "createBase"
               /\ result' = result
          ELSE /\ TopLevelCatch(o)
               /\ sourceBase' = sourceBase
  /\ UNCHANGED <<req, http, config, sourceAppToken, tableIdFromUrl, targetBase,
                 sourceTables, listedTables, tblIdx, sourceFields, errors, fieldsConverted,
                 totalRecordsProcessed, currentUser>>
  /\ UNCHANGED <<unitVars, listVars, batchVars>>

CreateBase ==
  /\ pc = "createBase"
  /\ \E o \in Outcomes :
       /\ calls' = Append(calls, Call("createBase", 0, o, 0))
       /\ IF o = "ok"
          THEN /\ targetBase' = [app_token |-> "newApp", name |-> "Target"]
               /\ pc' = "deleteDefault"
               /\ result' = result
          ELSE /\ TopLevelCatch(o)
               /\ targetBase' = targetBase
  /\ UNCHANGED <<req, http, config, sourceAppToken, tableIdFromUrl, sourceBase,
                 sourceTables, listedTables, tblIdx, sourceFields, errors, fieldsConverted,
                 totalRecordsProcessed, currentUser>>
  /\ UNCHANGED <<unitVars, listVars, batchVars>>

\* o1: listTables on the target, found: a default-named table is listed,
\* o2: the delete request.  Every failure is logged and ignored.
deleteDefaultTable ==
  /\ pc = "deleteDefault"
  /\ \E o1 \in PlainOutcomes, found \in BOOLEAN, o2 \in PlainOutcomes :
       /\ (o1 # "ok" => ~found)
       /\ (~found => o2 = "ok")
       /\ calls' = IF found
                   THEN calls \o <<Call("listTables", -1, o1, 0), Call("deleteTable", -1, o2, 0)>>
                   ELSE Append(calls, Call("listTables", -1, o1, 0))
  /\ pc' = "listTables"
  /\ UNCHANGED <<req, http, config, sourceAppToken, tableIdFromUrl, sourceBase, targetBase,
                 sourceTables, listedTables, tblIdx, sourceFields, errors, fieldsConverted,
                 totalRecordsProcessed, currentUser, result>>
  /\ UNCHANGED <<unitVars, listVars, batchVars>>

(***************************************************************************)
(* SnapshotService.createSnapshot: the table loop                          *)
(***************************************************************************)
\* variant: the grant does not wait for the loop to end
LoopPc_grantEarly(tables, idx) ==
  IF config.grantAdminPermission THEN "grant_user"
  ELSE IF idx < Len(tables) THEN "tbl_fields" ELSE "return"

\* control after table idx of tables: the next iteration, or what follows
\* the loop
LoopPc(tables, idx) ==
  IF idx < Len(tables) THEN "tbl_fields"
  ELSE IF config.grantAdminPermission THEN "grant_user" ELSE "return"

LoopIdx(tables, idx) == IF idx < Len(tables) THEN idx + 1 ELSE idx

\* processTable returned n (after recording newErrors): add and iterate
FinishTable(newErrors, n) ==
  /\ errors' = newErrors
  /\ totalRecordsProcessed' = totalRecordsProcessed + n
  /\ tblIdx' = LoopIdx(sourceTables, tblIdx)
  /\ pc' = LoopPc(sourceTables, tblIdx)

TableErrorEntry(msg) ==
  [table |-> sourceTables[tblIdx].name, message |-> "Failed to process table: " \o msg]

\* variant: the first failing table ends the loop
TableCatch_abort(msg) ==
  /\ errors' = Append(errors, TableErrorEntry(msg))
  /\ totalRecordsProcessed' = totalRecordsProcessed
  /\ tblIdx' = tblIdx
  /\ pc' = IF config.grantAdminPermission THEN "grant_user" ELSE "return"

\* the catch inside the for loop of createSnapshot
TableCatch(msg) ==
  /\ errors' = Append(errors, TableErrorEntry(msg))
  /\ totalRecordsProcessed' = totalRecordsProcessed
  /\ tblIdx' = LoopIdx(sourceTables, tblIdx)
  /\ pc' = LoopPc(sourceTables, tblIdx)

ENoFields == "Could not retrieve field definitions (Advanced Permissions may be blocking access)"

\* listTablesWithFallback and the selectedTableIds filter.  listTables is
\* taken here by its outcome (a list or a raised Error); its paging loop is
\* the subject of SpecList.
ListSourceTables ==
  /\ pc = "listTables"
  /\ \E o1 \in {Err(m) : m \in VendorErrors} \cup {Ok(l) : l \in TableLists}, o2 \in Outcomes :
       LET useFallback == ~o1.ok /\ TablesFallbackApplies(o1.msg, tableIdFromUrl)
           r == listTablesWithFallback(o1, o2, tableIdFromUrl)
           filtered == IF config.selectedTableIds # {}
                       THEN SelectSeq(r.items, LAMBDA t : t.table_id \in config.selectedTableIds)
                       ELSE r.items
       IN /\ (~useFallback => o2 = "ok")
          /\ calls' = IF useFallback
                      THEN calls \o <<Call("listTables", 0, ResOf(o1), 0),
                                      Call("getTable", 0, o2, 0)>>
                      ELSE Append(calls, Call("listTables", 0, ResOf(o1), Len(o1.items)))
          /\ IF r.ok
             THEN /\ listedTables' = r.items
                  /\ sourceTables' = filtered
                  /\ tblIdx' = LoopIdx(filtered, 0)
                  /\ pc' = LoopPc(filtered, 0)
                  /\ result' = result
             ELSE /\ TopLevelCatch(r.msg)
                  /\ UNCHANGED <<sourceTables, listedTables, tblIdx>>
  /\ UNCHANGED <<req, http, config, sourceAppToken, tableIdFromUrl, sourceBase, targetBase,
                 sourceFields, errors, fieldsConverted, totalRecordsProcessed, currentUser>>
  /\ UNCHANGED <<unitVars, listVars, batchVars>>

(***************************************************************************)
(* SnapshotService.processTable, one action per awaited client call        *)
(***************************************************************************)
\* variant: an empty field list is not tested for
NoFieldsRetrieved_never(fields) == FALSE

\* the test  sourceFields.length === 0  of processTable
NoFieldsRetrieved(fields) == Len(fields) = 0

ProcessTable_ListFields ==
  /\ pc = "tbl_fields"
  /\ \E o \in LoopListErrs \cup {Ok(l) : l \in FieldLists} :
       LET r == listFieldsWithFallback(o)
       IN /\ calls' = Append(calls, Call("listFields", tblIdx, ResOf(o), Len(o.items)))
          /\ IF ~r.ok
             THEN TableCatch(r.msg) /\ UNCHANGED <<sourceFields, fieldsConverted>>
             ELSE IF NoFieldsRetrieved(r.items)
             THEN FinishTable(Append(errors,
                              [table |-> SnapshotTableName(sourceTables[tblIdx].name),
                               message |-> ENoFields]), 0)
                  /\ UNCHANGED <<sourceFields, fieldsConverted>>
             ELSE /\ sourceFields' = r.items
                  /\ fieldsConverted' = fieldsConverted + CountConverted(r.items)
                  /\ pc' = "tbl_create"
                  /\ UNCHANGED <<tblIdx, errors, totalRecordsProcessed>>
  /\ UNCHANGED <<req, http, config, sourceAppToken, tableIdFromUrl, sourceBase, targetBase,
                 sourceTables, listedTables, currentUser, result>>
  /\ UNCHANGED <<unitVars, listVars, batchVars>>

ProcessTable_CreateTable ==
  /\ pc = "tbl_create"
  /\ \E o \in PlainOutcomes, shape \in {"table", "table_id", "none"} :
       LET r == createTable(o, shape)
       IN /\ (o # "ok" => shape = "table")
          /\ calls' = Append(calls, Call("createTable", tblIdx, ResOf(r), Len(sourceFields)))
          /\ IF r.ok
             THEN pc' = "tbl_refetch" /\ UNCHANGED <<tblIdx, errors, totalRecordsProcessed>>
             ELSE TableCatch(r.msg)
  /\ UNCHANGED <<req, http, config, sourceAppToken, tableIdFromUrl, sourceBase, targetBase,
                 sourceTables, listedTables, sourceFields, fieldsConverted, currentUser, result>>
  /\ UNCHANGED <<unitVars, listVars, batchVars>>

ProcessTable_RefetchFields ==
  /\ pc = "tbl_refetch"
  /\ \E o \in PlainOutcomes :
       /\ calls' = Append(calls, Call("listTargetFields", tblIdx, o, 0))
       /\ IF o = "ok"
          THEN pc' = "tbl_records" /\ UNCHANGED <<tblIdx, errors, totalRecordsProcessed>>
          ELSE TableCatch(o)
  /\ UNCHANGED <<req, http, config, sourceAppToken, tableIdFromUrl, sourceBase, targetBase,
                 sourceTables, listedTables, sourceFields, fieldsConverted, currentUser, result>>
  /\ UNCHANGED <<unitVars, listVars, batchVars>>

ProcessTable_ListRecords ==
  /\ pc = "tbl_records"
  /\ \E o \in LoopListErrs \cup {Ok([i \in 1..n |-> i]) : n \in {0, BATCH_SIZE + 1}} :
       LET r == listRecordsWithFallback(o)
       IN /\ calls' = Append(calls, Call("listRecords", tblIdx, ResOf(o), Len(o.items)))
          /\ IF ~r.ok
             THEN TableCatch(r.msg) /\ UNCHANGED <<crRecords, crI, crRequests>>
             ELSE IF Len(r.items) = 0
             THEN FinishTable(errors, 0) /\ UNCHANGED <<crRecords, crI, crRequests>>
             ELSE /\ crRecords' = r.items
                  /\ crI' = 0
                  /\ crRequests' = <<>>
                  /\ pc' = "tbl_write"
                  /\ UNCHANGED <<tblIdx, errors, totalRecordsProcessed>>
  /\ UNCHANGED <<req, http, config, sourceAppToken, tableIdFromUrl, sourceBase, targetBase,
                 sourceTables, listedTables, sourceFields, fieldsConverted, currentUser, result>>
  /\ UNCHANGED <<unitVars, listVars, crPc>>

(***************************************************************************)
(* LarkApiClient.createRecords: the batching loop                          *)
(***************************************************************************)
Min(a, b) == IF a < b THEN a ELSE b

\* records.slice(i, i + BATCH_SIZE)
BatchAt(records, i) == SubSeq(records, i + 1, Min(i + BATCH_SIZE, Len(records)))

\* variant: the loop advances one past the batch
NextOffset_skip(i) == i + BATCH_SIZE + 1

NextOffset(i) == i + BATCH_SIZE

ProcessTable_CreateRecords ==
  /\ pc = "tbl_write"
  /\ crI < Len(crRecords)
  /\ \E o \in PlainOutcomes :
       /\ calls' = Append(calls, Call("batchCreate", tblIdx, o, Len(BatchAt(crRecords, crI))))
       /\ IF o # "ok"
          THEN TableCatch(o) /\ UNCHANGED <<crI, crRequests>>
          ELSE /\ crRequests' = Append(crRequests, BatchAt(crRecords, crI))
               /\ crI' = NextOffset(crI)
               /\ IF NextOffset(crI) < Len(crRecords)
                  THEN UNCHANGED <<pc, tblIdx, errors, totalRecordsProcessed>>
                  ELSE FinishTable(errors, Len(crRecords))
  /\ UNCHANGED <<req, http, config, sourceAppToken, tableIdFromUrl, sourceBase, targetBase,
                 sourceTables, listedTables, sourceFields, fieldsConverted, currentUser, result>>
  /\ UNCHANGED <<unitVars, listVars, crPc, crRecords>>

(***************************************************************************)
(* SnapshotService.createSnapshot: admin grant and return                  *)
(***************************************************************************)
GrantErrorEntry(msg) ==
  [table |-> "", message |-> "Failed to grant admin permission: " \o msg]

GrantGetUser ==
  /\ pc = "grant_user"
  /\ \E o \in PlainOutcomes, shape \in {"user", "empty"} :
       LET u == getCurrentUser(o, shape)
       IN /\ (o # "ok" => shape = "empty")
          /\ calls' = Append(calls, Call("getCurrentUser", 0, o, 0))
          /\ IF u.raised
             THEN /\ errors' = Append(errors, GrantErrorEntry(u.msg))
                  /\ pc' = "return"
                  /\ currentUser' = currentUser
             ELSE /\ currentUser' = u.user_id
                  /\ pc' = "grant_add"
                  /\ errors' = errors
  /\ UNCHANGED <<req, http, config, sourceAppToken, tableIdFromUrl, sourceBase, targetBase,
                 sourceTables, listedTables, tblIdx, sourceFields, fieldsConverted,
                 totalRecordsProcessed, result>>
  /\ UNCHANGED <<unitVars, listVars, batchVars>>

GrantAddCollaborator ==
  /\ pc = "grant_add"
  /\ \E o \in PlainOutcomes :
       LET r == addCollaborator(currentUser, o)
       IN /\ (~r.requested => o = "ok")
          /\ calls' = IF r.requested
                      THEN Append(calls, Call("addCollaborator", 0, o, 0))
                      ELSE calls
          /\ errors' = IF r.raised THEN Append(errors, GrantErrorEntry(r.msg)) ELSE errors
  /\ pc' = "return"
  /\ UNCHANGED <<req, http, config, sourceAppToken, tableIdFromUrl, sourceBase, targetBase,
                 sourceTables, listedTables, tblIdx, sourceFields, fieldsConverted,
                 totalRecordsProcessed, currentUser, result>>
  /\ UNCHANGED <<unitVars, listVars, batchVars>>

SuccessResult ==
  [success |-> Len(errors) = 0, sourceBase |-> sourceBase, targetBase |-> targetBase,
   tablesProcessed |-> Len(sourceTables), recordsProcessed |-> totalRecordsProcessed,
   fieldsConverted |-> fieldsConverted, errors |-> errors]

Return ==
  /\ pc = "return"
  /\ result' = SuccessResult
  /\ pc' = "returned"
  /\ UNCHANGED <<req, http, config, sourceAppToken, tableIdFromUrl, sourceBase, targetBase,
                 sourceTables, listedTables, tblIdx, sourceFields, errors, fieldsConverted,
                 totalRecordsProcessed, currentUser, calls>>
  /\ UNCHANGED <<unitVars, listVars, batchVars>>

Next ==
  \/ PostSnapshot
  \/ ResolveSource
  \/ GetBase
  \/ CreateBase
  \/ deleteDefaultTable
  \/ ListSourceTables
  \/ ProcessTable_ListFields
  \/ ProcessTable_CreateTable
  \/ ProcessTable_RefetchFields
  \/ ProcessTable_ListRecords
  \/ ProcessTable_CreateRecords
  \/ GrantGetUser
  \/ GrantAddCollaborator
  \/ Return
  \/ Respond

Spec == Init /\ [][Next]_vars

(***************************************************************************)
(* LarkApiClient list operations, one action per page request.             *)
(* Code variables: pageToken, prevPageToken, pageCount, lsItems (the       *)
(* accumulated array, by length), lsResult (the returned array, by length, *)
(* -1 before the return).  History variables: lsSent (token sent with the  *)
(* last request), lsHasMore (has_more of the last response), lsRequests    *)
(* (requests issued), lsServed (items the server delivered).               *)
(***************************************************************************)
\* page responses: a failed request, or items (0 = none/absent) with a
\* has_more flag and a continuation token ("" = absent)
PageResponses ==
  [ok : {TRUE}, items : {0, 1}, has_more : BOOLEAN, page_token : {"t1", "t2", ""}]

InitList ==
  /\ Idle({"oauth", "route", "snap", "batch", "url", "fields", "record", "auth"})
  /\ lsOp \in {"tables", "fields", "records"}
  /\ lsPc = "request"
  /\ pageToken = "" /\ prevPageToken = "" /\ pageCount = 0 /\ lsItems = 0 /\ lsResult = -1
  /\ lsSent = "" /\ lsHasMore = FALSE /\ lsRequests = 0 /\ lsServed = 0

\* the request of a page throws: the list operation throws
ListRaise ==
  /\ lsPc' = "raised"
  /\ lsSent' = pageToken
  /\ lsRequests' = lsRequests + 1
  /\ UNCHANGED <<lsOp, pageToken, prevPageToken, pageCount, lsItems, lsResult,
                 lsHasMore, lsServed>>

listTables_Page ==
  /\ lsOp = "tables" /\ lsPc = "request"
  /\ lsRequests < MaxTablePages
  /\ \/ ListRaise
     \/ \E r \in PageResponses :
          /\ lsSent' = pageToken
          /\ lsRequests' = lsRequests + 1
          /\ lsHasMore' = r.has_more
          /\ lsServed' = lsServed + r.items
          /\ lsItems' = lsItems + r.items
          /\ pageToken' = r.page_token
          /\ IF r.page_token # ""
             THEN lsPc' = "request" /\ lsResult' = lsResult
             ELSE lsPc' = "done" /\ lsResult' = lsItems + r.items
          /\ UNCHANGED <<lsOp, prevPageToken, pageCount>>
  /\ UNCHANGED <<unitVars, routeVars, snapVars, batchVars>>

\* variant: the cap is tested with > instead of >=
HitCap_late(count, maxPages) == count > maxPages

HitCap(count, maxPages) == count >= maxPages

\* one iteration of the do-while of listFields / listRecords
PagedStep(maxPages) ==
  \/ ListRaise
  \/ \E r \in PageResponses :
       /\ lsSent' = pageToken
       /\ lsRequests' = lsRequests + 1
       /\ lsHasMore' = r.has_more
       /\ lsServed' = lsServed + r.items
       /\ lsItems' = lsItems + r.items
       /\ prevPageToken' = pageToken
       /\ pageToken' = r.page_token
       /\ pageCount' = pageCount + 1
       /\ IF (r.page_token # "" /\ r.page_token = pageToken) \/ HitCap(pageCount + 1, maxPages)
             \/ r.page_token = ""
          THEN lsPc' = "done" /\ lsResult' = lsItems + r.items
          ELSE lsPc' = "request" /\ lsResult' = lsResult
       /\ lsOp' = lsOp

listFields_Page ==
  /\ lsOp = "fields" /\ lsPc = "request"
  /\ PagedStep(MAX_PAGES_FIELDS)
  /\ UNCHANGED <<unitVars, routeVars, snapVars, batchVars>>

listRecords_Page ==
  /\ lsOp = "records" /\ lsPc = "request"
  /\ PagedStep(MAX_PAGES_RECORDS)
  /\ UNCHANGED <<unitVars, routeVars, snapVars, batchVars>>

NextList ==
  \/ listTables_Page
  \/ listFields_Page
  \/ listRecords_Page

SpecList == InitList /\ [][NextList]_vars

(***************************************************************************)
(* LarkApiClient.createRecords on its own, one action per batch request    *)
(***************************************************************************)
InitBatch ==
  /\ Idle({"oauth", "route", "snap", "list", "url", "fields", "record", "auth"})
  /\ crRecords \in {[i \in 1..n |-> i] : n \in 0..MaxBatchRecords}
  /\ crPc = "loop"
  /\ crI = 0
  /\ crRequests = <<>>

createRecords_Batch ==
  /\ crPc = "loop"
  /\ crI < Len(crRecords)
  /\ \E o \in PlainOutcomes :
       IF o = "ok"
       THEN /\ crRequests' = Append(crRequests, BatchAt(crRecords, crI))
            /\ crI' = NextOffset(crI)
            /\ crPc' = crPc
       ELSE /\ crPc' = "raised"
            /\ UNCHANGED <<crI, crRequests>>
  /\ UNCHANGED <<unitVars, routeVars, snapVars, listVars, crRecords>>

createRecords_Return ==
  /\ crPc = "loop"
  /\ ~(crI < Len(crRecords))
  /\ crPc' = "done"
  /\ UNCHANGED <<unitVars, routeVars, snapVars, listVars, crRecords, crI, crRequests>>

NextBatch ==
  \/ createRecords_Batch
  \/ createRecords_Return

SpecBatch == InitBatch /\ [][NextBatch]_vars

(***************************************************************************)
(* LarkApiClient.parseBaseUrl on its own: the URL is drawn from all        *)
(* sequences of at most MaxUrlSegs segments                                *)
(***************************************************************************)
MaxUrlSegs == 3

UrlShapes == {"base", "app_token", "bitable", "wiki"}

AllUrls ==
  LET UrlSegs == {Seg(k, v) : k \in UrlShapes, v \in {"tokA", "tokB", ""}}
                   \cup {Seg("other", "host"), Seg("table", "tbl1")}
  IN UNION {[1..n -> UrlSegs] : n \in 0..MaxUrlSegs}

InitUrl ==
  /\ Idle({"oauth", "route", "snap", "list", "batch", "fields", "record", "auth"})
  /\ puUrl \in AllUrls
  /\ puResult = [done |-> FALSE, ok |-> FALSE, val |-> ""]

\* one call of parseBaseUrl: a returned token (ok) or the thrown Error
ParseBaseUrl ==
  /\ ~puResult.done
  /\ puResult' = [done |-> TRUE, ok |-> parseBaseUrl(puUrl).ok, val |-> parseBaseUrl(puUrl).val]
  /\ UNCHANGED <<puUrl, fieldVars, recordVars, authVars, routeVars, snapVars, listVars, batchVars, oauthVars>>

NextUrl == ParseBaseUrl

SpecUrl == InitUrl /\ [][NextUrl]_vars

(***************************************************************************)
(* Field definitions as fetched.  The property bags live on a heap         *)
(* (objHeap, address -> object) because sanitizeProperty copies one and    *)
(* deletes keys; a field definition holds the address of its bag (0 =      *)
(* undefined) and its own identity ref.  Absent marks a key the object     *)
(* does not have.                                                          *)
(***************************************************************************)
MaxFields == 2

Absent == "<absent>"

\* a key that is there and holds null
NullProp == "<null>"

FIELD_TYPE_MAP == [Text |-> 1, Number |-> 2]

NoKeys ==
  [live |-> TRUE, table_id |-> Absent, link_table_id |-> Absent, back_field_id |-> Absent,
   formula_expression |-> Absent, formatter |-> Absent, hasOptions |-> FALSE, options |-> <<>>]

\* Object.keys of a property bag
KeysOf(bag) ==
  {k \in {"table_id", "link_table_id", "back_field_id", "formula_expression", "formatter"} :
     bag[k] # Absent}
    \cup (IF bag.hasOptions THEN {"options"} ELSE {})

Option(id, name, color) == [id |-> id, name |-> name, color |-> color]

Kind(uiType, type, hasBag, bag) ==
  [ui_type |-> uiType, type |-> type, hasBag |-> hasBag, bag |-> bag]

\* what the vendor's field list can hold: the symbolic type, the numeric
\* type code and the property bag vary independently
FieldKinds ==
  LET LinkBag == [NoKeys EXCEPT !.table_id = "tblX"]
      DuplexBag == [NoKeys EXCEPT !.table_id = "tblX", !.back_field_id = "fldB"]
      FormulaBag == [NoKeys EXCEPT !.formula_expression = "SUM(A)", !.formatter = "0.0"]
      FormatBag == [NoKeys EXCEPT !.formatter = "0.00"]
      SelectBag ==
        [NoKeys EXCEPT !.hasOptions = TRUE,
                       !.options = <<Option("opt1", "Open", 0), Option("opt2", "", 1),
                                     Option("opt3", "Done", 2)>>]
  IN {Kind("SingleLink", 18, TRUE, LinkBag),
      Kind("DuplexLink", 21, TRUE, DuplexBag),
      Kind("Lookup", 19, FALSE, NoKeys),
      Kind("Formula", 20, TRUE, FormulaBag),
      Kind("Formula", 2, FALSE, NoKeys),
      Kind("User", 11, TRUE, FormatBag),
      Kind("CreatedUser", 1003, FALSE, NoKeys),
      Kind("ModifiedUser", 1004, FALSE, NoKeys),
      Kind("Attachment", 17, FALSE, NoKeys),
      Kind("Text", 1, FALSE, NoKeys),
      Kind("Text", 1, TRUE, LinkBag),
      Kind("Number", 2, TRUE, FormatBag),
      Kind("SingleSelect", 3, TRUE, SelectBag),
      Kind("MultiSelect", 4, TRUE, FormatBag),
      Kind("Checkbox", 7, FALSE, NoKeys),
      Kind("Rating", 24, FALSE, NoKeys),
      Kind("AutoNumber", 1005, FALSE, NoKeys),
      Kind("CreatedTime", 1001, FALSE, NoKeys),
      Kind(Absent, 20, FALSE, NoKeys),
      Kind(Absent, 11, FALSE, NoKeys),
      Kind(Absent, 18, TRUE, LinkBag),
      Kind(Absent, 19, FALSE, NoKeys),
      Kind(Absent, 17, FALSE, NoKeys),
      Kind("Stage", 24, FALSE, NoKeys),
      Kind("Button", 3001, FALSE, NoKeys),
      Kind("Progress", 22, TRUE, FormatBag)}

FieldName(i) == IF i = 1 THEN "A" ELSE IF i = 2 THEN "B" ELSE IF i = 3 THEN "C" ELSE "D"

\* the field list and the heap the vendor's response of kinds is parsed to
FieldsOf(kinds) ==
  [i \in 1..Len(kinds) |->
     [ref |-> i, field_name |-> FieldName(i), type |-> kinds[i].type,
      ui_type |-> kinds[i].ui_type, property |-> IF kinds[i].hasBag THEN i ELSE 0]]

\* three cells per field: its bag and the two objects sanitizeProperty may
\* allocate for it; a cell not yet allocated is not live
HeapOf(kinds) ==
  [a \in 1..(3 * MaxFields) |->
     IF a <= Len(kinds) /\ kinds[a].hasBag THEN kinds[a].bag
     ELSE [NoKeys EXCEPT !.live = FALSE]]

(***************************************************************************)
(* SnapshotService.convertFieldDefinitions / sanitizeProperty              *)
(***************************************************************************)
\* variant: the bag is not copied, sanitized is the bag itself
SpreadCopy_alias(p, fresh) == p

\* const sanitized = { ...property }: the address of sanitized
SpreadCopy(p, fresh) == fresh

Truthy(str) == str # Absent /\ str # ""

\* options.filter(opt => opt.name).map(opt => ({name, color}))
cleanOptions(options) ==
  LET kept == SelectSeq(options, LAMBDA opt : Truthy(opt.name))
  IN [i \in 1..Len(kept) |-> Option(Absent, kept[i].name, kept[i].color)]

\* p: address of the bag (0 = undefined), a1, a2: free addresses.
\* Returns the heap after the call and the address returned (0 = undefined).
sanitizeProperty(heap, p, uiType, a1, a2) ==
  IF p = 0 THEN [heap |-> heap, ret |-> 0]
  ELSE LET sanitized == SpreadCopy(p, a1)
           h1 == [heap EXCEPT ![sanitized] = heap[p]]
           h2 == [h1 EXCEPT ![sanitized] =
                    [h1[sanitized] EXCEPT !.table_id = Absent, !.link_table_id = Absent,
                                          !.back_field_id = Absent,
                                          !.formula_expression = Absent]]
       IN IF uiType \in {"SingleSelect", "MultiSelect"}
          THEN [heap |-> [h2 EXCEPT ![a2] =
                            [NoKeys EXCEPT !.hasOptions = TRUE,
                                           !.options = IF h2[sanitized].hasOptions
                                                       THEN cleanOptions(h2[sanitized].options)
                                                       ELSE <<>>]],
                ret |-> a2]
          ELSE [heap |-> h2, ret |-> IF KeysOf(h2[sanitized]) # {} THEN sanitized ELSE 0]

NewField(ref, name, type, uiType, property) ==
  [ref |-> ref, field_name |-> name, type |-> type, ui_type |-> uiType, property |-> property]

\* the callback of sourceFields.map; ref is the identity of the object
\* literal it returns
convertField(heap, field, ref, a1, a2) ==
  IF isDynamic(field)
  THEN [heap |-> heap,
        field |-> NewField(ref, field.field_name, FIELD_TYPE_MAP.Text, "Text", 0)]
  ELSE IF field.ui_type \in UNSUPPORTED_FIELD_TYPES \/ field.type \in UNSUPPORTED_TYPE_NUMBERS
  THEN IF field.type = 24 \/ field.type = 1050 \/ field.ui_type = "Rating"
            \/ field.ui_type = "Currency"
       THEN [heap |-> heap,
             field |-> NewField(ref, field.field_name, FIELD_TYPE_MAP.Number, "Number", 0)]
       ELSE [heap |-> heap,
             field |-> NewField(ref, field.field_name, FIELD_TYPE_MAP.Text, "Text", 0)]
  ELSE LET r == sanitizeProperty(heap, field.property, field.ui_type, a1, a2)
       IN [heap |-> r.heap,
           field |-> NewField(ref, field.field_name, field.type, field.ui_type, r.ret)]

\* sourceFields.map(...), from the first field on
convertFieldDefinitions(heap, fields) ==
  LET RECURSIVE MapFrom(_, _)
      MapFrom(h, i) ==
        IF i > Len(fields) THEN [heap |-> h, out |-> <<>>]
        ELSE LET r == convertField(h, fields[i], Len(fields) + i,
                                   Len(fields) + 2 * i - 1, Len(fields) + 2 * i)
                 rest == MapFrom(r.heap, i + 1)
             IN [heap |-> rest.heap, out |-> <<r.field>> \o rest.out]
  IN MapFrom(heap, 1)

(***************************************************************************)
(* Cell values.  A JSON value is a record: t its kind, n / s / b the       *)
(* number, string or boolean, o the properties of an object (Absent: no    *)
(* such key), a the elements of an array (values without elements of       *)
(* their own).  Numbers are integers.  "undefined" is what reading a       *)
(* missing key yields.                                                     *)
(***************************************************************************)
NoProps ==
  [text |-> Absent, value |-> Absent, name |-> Absent, en_name |-> Absent, id |-> Absent,
   record_id |-> Absent, file_token |-> Absent]

VNull == [t |-> "null", n |-> 0, s |-> "", b |-> FALSE, o |-> NoProps, a |-> <<>>]
VUndefined == [VNull EXCEPT !.t = "undefined"]
VNum(n) == [VNull EXCEPT !.t = "num", !.n = n]
VStr(str) == [VNull EXCEPT !.t = "str", !.s = str]
VBool(b) == [VNull EXCEPT !.t = "bool", !.b = b]
VObj(o) == [VNull EXCEPT !.t = "obj", !.o = o]
VArr(a) == [VNull EXCEPT !.t = "arr", !.a = a]

UserAnn == VObj([NoProps EXCEPT !.id = "u1", !.name = "Ann", !.en_name = "Ann E"])
UserEn == VObj([NoProps EXCEPT !.id = "u2", !.name = "", !.en_name = "Bob E"])
UserId == VObj([NoProps EXCEPT !.id = "u3"])

\* the cell values the vendor may deliver for a field (VUndefined: the
\* record has no key for it)
ValuesFor(field) ==
  LET LinkText == VObj([NoProps EXCEPT !.record_id = "r1", !.text = "Row 1"])
      LinkId == VObj([NoProps EXCEPT !.record_id = "r2"])
      FileNamed == VObj([NoProps EXCEPT !.file_token = "ft1", !.name = "a.png"])
      FileToken == VObj([NoProps EXCEPT !.file_token = "ft2"])
      TextObj == VObj([NoProps EXCEPT !.text = "total"])
      ValueObj == VObj([NoProps EXCEPT !.value = "inner"])
      NullValueObj == VObj([NoProps EXCEPT !.value = NullProp, !.name = "X"])
      EmptyTextObj == VObj([NoProps EXCEPT !.text = "", !.en_name = "Y"])
  IN IF field.ui_type \in {"User", "CreatedUser", "ModifiedUser"}
     THEN {UserAnn, UserEn, UserId, VArr(<<UserAnn, UserId, UserEn>>), VNull}
     ELSE IF field.ui_type \in {"SingleLink", "DuplexLink"}
     THEN {VArr(<<LinkText, LinkId>>), VStr("r1"), VUndefined}
     ELSE IF field.ui_type = "Lookup"
     THEN {VArr(<<VStr("x"), TextObj, VStr("")>>), ValueObj, VNum(5), NullValueObj,
           EmptyTextObj}
     ELSE IF field.ui_type = "Formula"
     THEN {VNum(42), VStr("calculated"), VArr(<<TextObj, VNum(7)>>), TextObj}
     ELSE IF field.ui_type = "Attachment"
     THEN {VArr(<<FileNamed, FileToken>>), VNull}
     ELSE IF field.ui_type \in {"Number", "Rating"}
     THEN {VNum(7), VStr("42"), VStr("7px"), VStr(""), VStr("n/a")}
     ELSE IF field.ui_type = "Progress"
     THEN {VNum(7), VStr("n/a")}
     ELSE IF field.ui_type = "Checkbox"
     THEN {VBool(TRUE), VBool(FALSE)}
     ELSE IF field.ui_type \in {"AutoNumber", "CreatedTime"}
     THEN {VNum(1700), VStr("N-1")}
     ELSE IF field.ui_type \in {"SingleSelect", "MultiSelect"}
     THEN {VStr("Open"), VArr(<<VStr("Open"), VStr("Done")>>)}
     ELSE IF field.ui_type = "Stage"
     THEN {VStr("Doing"), VNum(2)}
     ELSE IF field.ui_type = Absent /\ field.type = 11
     THEN {UserAnn, VArr(<<UserAnn, UserId>>)}
     ELSE IF field.ui_type = Absent /\ field.type = 18
     THEN {VArr(<<LinkText, LinkId>>)}
     ELSE IF field.ui_type = Absent /\ field.type = 19
     THEN {VArr(<<VStr("x"), TextObj>>), ValueObj}
     ELSE IF field.ui_type = Absent /\ field.type = 17
     THEN {VArr(<<FileNamed, FileToken>>)}
     ELSE IF field.ui_type = Absent
     THEN {VNum(42), VStr("calculated"), TextObj}
     ELSE {VStr("hello"), VNull, VUndefined}

RECURSIVE ValueLists(_, _)
ValueLists(fields, i) ==
  IF i > Len(fields) THEN {<<>>}
  ELSE {<<v>> \o rest : v \in ValuesFor(fields[i]), rest \in ValueLists(fields, i + 1)}

\* record.fields of a fetched record: the key of field i is there unless
\* its value is VUndefined; the key "Extra" names no listed field
RecordOf(fields, vals) ==
  LET IndexOfName(name) == CHOOSE i \in 1..Len(fields) : fields[i].field_name = name
  IN [k \in {fields[i].field_name : i \in {j \in 1..Len(fields) : vals[j] # VUndefined}}
              \cup {"Extra"} |->
        IF k = "Extra" THEN VStr("unlisted") ELSE vals[IndexOfName(k)]]

\* fields[key]
Get(fields, key) == IF key \in DOMAIN fields THEN fields[key] ELSE VUndefined

(***************************************************************************)
(* String conversions of JavaScript                                        *)
(***************************************************************************)
RECURSIVE JoinStr(_, _)
\* Array.prototype.join on strings; undefined elements give ""
JoinStr(strs, sep) ==
  IF Len(strs) = 0 THEN ""
  ELSE IF Len(strs) = 1 THEN (IF strs[1] = Absent THEN "" ELSE strs[1])
  ELSE (IF strs[1] = Absent THEN "" ELSE strs[1]) \o sep \o JoinStr(Tail(strs), sep)

\* a || b on optional strings
OrElse(x, y) == IF Truthy(x) THEN x ELSE y

\* String(v); an array is joined with "," and its null or undefined
\* elements give ""
StringOf(v) ==
  LET scalar(x) ==
        IF x.t = "num" THEN ToString(x.n)
        ELSE IF x.t = "str" THEN x.s
        ELSE IF x.t = "bool" THEN (IF x.b THEN "true" ELSE "false")
        ELSE IF x.t = "obj" THEN "[object Object]"
        ELSE IF x.t = "null" THEN "null"
        ELSE "undefined"
  IN IF v.t = "arr"
     THEN JoinStr([i \in 1..Len(v.a) |->
                     IF v.a[i].t \in {"null", "undefined"} THEN "" ELSE scalar(v.a[i])], ",")
     ELSE scalar(v)

\* parseFloat on the strings of the model: the longest numeric prefix
parseFloat(str) ==
  IF str = "42" THEN [nan |-> FALSE, n |-> 42]
  ELSE IF str = "7px" THEN [nan |-> FALSE, n |-> 7]
  ELSE [nan |-> TRUE, n |-> 0]

(***************************************************************************)
(* SnapshotService.convertRecordValues and the value converters            *)
(***************************************************************************)
\* an array is mapped element by element (elements have no elements of
\* their own) and joined
extractTextFromValue(val) ==
  LET \* JSON.stringify of an object that has none of text, value, name, en_name
      JsonStringify(o) ==
        LET pair(k) == "\"" \o k \o "\":\"" \o o[k] \o "\""
            keys == SelectSeq(<<"id", "record_id", "file_token">>, LAMBDA k : o[k] # Absent)
        IN "{" \o JoinStr([i \in 1..Len(keys) |-> pair(keys[i])], ",") \o "}"
      scalar(x) ==
        IF x.t \in {"null", "undefined"} THEN ""
        ELSE IF x.t = "str" THEN x.s
        ELSE IF x.t \in {"num", "bool"} THEN StringOf(x)
        ELSE IF x.o.text # Absent THEN x.o.text
        ELSE IF x.o.value # Absent THEN (IF x.o.value = NullProp THEN "" ELSE x.o.value)
        ELSE IF x.o.name # Absent THEN x.o.name
        ELSE IF x.o.en_name # Absent THEN x.o.en_name
        ELSE JsonStringify(x.o)
  IN IF val.t = "arr"
     THEN JoinStr([i \in 1..Len(val.a) |-> scalar(val.a[i])], ", ")
     ELSE scalar(val)

\* null is modelled as [isNull |-> TRUE]
sanitizeNumberValue(value) ==
  IF value.t \in {"null", "undefined"} \/ value = VStr("") THEN [isNull |-> TRUE, n |-> 0]
  ELSE IF value.t = "num" THEN [isNull |-> FALSE, n |-> value.n]
  ELSE IF value.t = "str"
  THEN [isNull |-> parseFloat(value.s).nan, n |-> parseFloat(value.s).n]
  ELSE [isNull |-> TRUE, n |-> 0]

\* variant: en_name is not consulted
convertUserValue_nameOrId(value) ==
  IF value.t = "arr"
  THEN VStr(JoinStr([i \in 1..Len(value.a) |-> OrElse(value.a[i].o.name, value.a[i].o.id)], ", "))
  ELSE VStr(OrElse(value.o.name, OrElse(value.o.id, "")))

convertUserValue(value) ==
  IF value.t = "arr"
  THEN VStr(JoinStr([i \in 1..Len(value.a) |->
                       OrElse(value.a[i].o.name, OrElse(value.a[i].o.en_name, value.a[i].o.id))],
                    ", "))
  ELSE VStr(OrElse(value.o.name, OrElse(value.o.en_name, OrElse(value.o.id, ""))))

convertLinkValue(value) ==
  IF value.t # "arr" THEN VStr("")
  ELSE VStr(JoinStr([i \in 1..Len(value.a) |-> OrElse(value.a[i].o.text, value.a[i].o.record_id)],
                    ", "))

convertAttachmentValue(value) ==
  IF value.t # "arr" THEN VStr("")
  ELSE LET names == [i \in 1..Len(value.a) |->
                       OrElse(value.a[i].o.name, OrElse(value.a[i].o.file_token, ""))]
       IN VStr(JoinStr(SelectSeq(names, LAMBDA nm : nm # ""), ", "))

convertLookupValue(value) ==
  IF value.t = "arr"
  THEN LET texts == [i \in 1..Len(value.a) |-> extractTextFromValue(value.a[i])]
       IN VStr(JoinStr(SelectSeq(texts, LAMBDA tx : tx # ""), ", "))
  ELSE IF value.t = "obj" THEN VStr(extractTextFromValue(value))
  ELSE VStr(StringOf(value))

convertFormulaValue(value) ==
  IF value.t = "num" THEN value
  ELSE IF value.t = "str" THEN value
  ELSE IF value.t = "arr"
  THEN VStr(JoinStr([i \in 1..Len(value.a) |-> extractTextFromValue(value.a[i])], ", "))
  ELSE IF value.t = "obj" THEN VStr(extractTextFromValue(value))
  ELSE VStr(StringOf(value))

convertDynamicValue(value, uiType) ==
  IF value.t \in {"null", "undefined"} THEN VStr("")
  ELSE IF uiType \in {"User", "CreatedUser", "ModifiedUser"} THEN convertUserValue(value)
  ELSE IF uiType \in {"SingleLink", "DuplexLink"} THEN convertLinkValue(value)
  ELSE IF uiType = "Lookup" THEN convertLookupValue(value)
  ELSE IF uiType = "Formula" THEN convertFormulaValue(value)
  ELSE IF uiType = "Attachment" THEN convertAttachmentValue(value)
  ELSE VStr(StringOf(value))

\* converted[key] = val
Put(converted, key, val) ==
  [k \in DOMAIN converted \cup {key} |-> IF k = key THEN val ELSE converted[k]]

\* variant: the target's field names are not consulted
SkipField_noTarget(fieldName, value, targetFieldNames) ==
  value.t \in {"null", "undefined"}

\* the test that makes the loop of convertRecordValues continue
SkipField(fieldName, value, targetFieldNames) ==
  fieldName \notin targetFieldNames \/ value.t \in {"null", "undefined"}

\* variant: every static value is written as its text
StaticValue_text(sourceField, value) ==
  [written |-> TRUE, val |-> VStr(extractTextFromValue(value))]

\* the else branch of the loop body: what is written for a field that is
\* not dynamic, if anything
StaticValue(sourceField, value) ==
  IF sourceField.ui_type \in {"Number", "Currency", "Progress", "Rating"}
  THEN [written |-> ~sanitizeNumberValue(value).isNull,
        val |-> VNum(sanitizeNumberValue(value).n)]
  ELSE IF sourceField.type \in UNSUPPORTED_TYPE_NUMBERS
  THEN [written |-> TRUE, val |-> VStr(extractTextFromValue(value))]
  ELSE [written |-> TRUE, val |-> value]

\* one iteration of the for loop of convertRecordValues; a dynamic
\* field's converted value is written as String(convertedValue) when it is
\* a number
convertOne(converted, fields, sourceField, targetFieldNames) ==
  LET value == Get(fields, sourceField.field_name)
      convertedValue == convertDynamicValue(value, sourceField.ui_type)
  IN IF SkipField(sourceField.field_name, value, targetFieldNames) THEN converted
     ELSE IF isDynamic(sourceField)
     THEN Put(converted, sourceField.field_name,
              IF convertedValue.t = "num" THEN VStr(StringOf(convertedValue))
              ELSE convertedValue)
     ELSE IF StaticValue(sourceField, value).written
     THEN Put(converted, sourceField.field_name, StaticValue(sourceField, value).val)
     ELSE converted

\* converted starts as {}
convertRecordValues(fields, sourceFields_, targetFieldNames) ==
  LET RECURSIVE LoopFrom(_, _)
      LoopFrom(converted, i) ==
        IF i > Len(sourceFields_) THEN converted
        ELSE LoopFrom(convertOne(converted, fields, sourceFields_[i], targetFieldNames), i + 1)
  IN LoopFrom([k \in {} |-> VNull], 1)

(***************************************************************************)
(* The conversions on their own, as processTable calls them: the fetched   *)
(* field list is converted, the target's field names are re-read, one      *)
(* fetched record is converted                                             *)
(***************************************************************************)
InitConvert ==
  /\ Idle({"oauth", "route", "snap", "list", "batch", "url", "record", "auth"})
  /\ \E kinds \in UNION {[1..n -> FieldKinds] : n \in 1..MaxFields} :
       /\ fetchedFields = FieldsOf(kinds)
       /\ fetchedHeap = HeapOf(kinds)
       /\ objHeap = HeapOf(kinds)
  /\ cfPc = "fetched"
  /\ convertedFields = <<>>

ConvertFieldDefinitions ==
  /\ cfPc = "fetched"
  /\ objHeap' = convertFieldDefinitions(objHeap, fetchedFields).heap
  /\ convertedFields' = convertFieldDefinitions(objHeap, fetchedFields).out
  /\ cfPc' = "converted"
  /\ UNCHANGED <<fetchedFields, fetchedHeap, recordVars>>
  /\ UNCHANGED <<puUrl, puResult, authVars, routeVars, snapVars, listVars, batchVars, oauthVars>>

\* the target's field names and one source record arrive.  The names of
\* the created table as listFields returns them: those sent, or without
\* the first one and with a field "Extra" of the target
FetchRecord ==
  /\ cfPc = "converted" /\ rcPc = "idle"
  /\ LET sent == {convertedFields[i].field_name : i \in 1..Len(convertedFields)}
     IN \E vals \in ValueLists(fetchedFields, 1),
           names \in {sent, (sent \ {FieldName(1)}) \cup {"Extra"}} :
          /\ rcRecord' = RecordOf(fetchedFields, vals)
          /\ rcTargetNames' = names
  /\ rcPc' = "fetched"
  /\ UNCHANGED <<fieldVars, rcConverted>>
  /\ UNCHANGED <<puUrl, puResult, authVars, routeVars, snapVars, listVars, batchVars, oauthVars>>

ConvertRecordValues ==
  /\ rcPc = "fetched"
  /\ rcConverted' = convertRecordValues(rcRecord, fetchedFields, rcTargetNames)
  /\ rcPc' = "done"
  /\ UNCHANGED <<fieldVars, rcRecord, rcTargetNames>>
  /\ UNCHANGED <<puUrl, puResult, authVars, routeVars, snapVars, listVars, batchVars, oauthVars>>

NextConvert ==
  \/ ConvertFieldDefinitions
  \/ FetchRecord
  \/ ConvertRecordValues

SpecConvert == InitConvert /\ [][NextConvert]_vars

(***************************************************************************)
(* AuthService: the token store.  Time is a counter; now stands for        *)
(* Date.now().  storeLog is a history variable: the last storeTokens /     *)
(* removeTokens applied to each session id (or what module load found).    *)
(***************************************************************************)
MaxTime == 3

Sessions == {"s1", "s2"}

NoTokens == [present |-> FALSE, expiresAt |-> 0, userId |-> "", userName |-> ""]

EmptyStore == [s \in Sessions |-> NoTokens]

\* module load: the file is read unless the process is serverless
loadSessions(serverless, file) == IF serverless THEN EmptyStore ELSE file

\* the file after saveSessions; written: the write did not throw
saveSessions(serverless, file, store, written) ==
  IF serverless \/ ~written THEN file ELSE store

\* .sessions.json holds nothing or one session when the module is loaded
InitAuth ==
  /\ Idle({"oauth", "route", "snap", "list", "batch", "url", "fields", "record"})
  /\ isServerless \in BOOLEAN
  /\ sessionFile \in
       {EmptyStore,
        [EmptyStore EXCEPT !["s1"] = [present |-> TRUE, expiresAt |-> 2, userId |-> "u1",
                                      userName |-> "User"]]}
  /\ tokenStore = loadSessions(isServerless, sessionFile)
  /\ now = 0
  /\ storeLog = [s \in Sessions |->
                   [op |-> IF loadSessions(isServerless, sessionFile)[s].present
                           THEN "stored" ELSE "none",
                    expiresAt |-> loadSessions(isServerless, sessionFile)[s].expiresAt]]
  /\ authState = [n |-> 0, session |-> "", isAuthenticated |-> FALSE, userId |-> "",
                  expiresAt |-> 0]

storeTokens(sessionId, tokens) ==
  /\ tokenStore' = [tokenStore EXCEPT ![sessionId] = tokens]
  /\ \E written \in BOOLEAN :
       sessionFile' = saveSessions(isServerless, sessionFile, tokenStore', written)
  /\ storeLog' = [storeLog EXCEPT ![sessionId] = [op |-> "stored", expiresAt |-> tokens.expiresAt]]
  /\ UNCHANGED <<isServerless, now, authState>>
  /\ UNCHANGED <<puUrl, puResult, fieldVars, recordVars, routeVars, snapVars, listVars,
                 batchVars, oauthVars>>

removeTokens(sessionId) ==
  /\ tokenStore' = [tokenStore EXCEPT ![sessionId] = NoTokens]
  /\ \E written \in BOOLEAN :
       sessionFile' = saveSessions(isServerless, sessionFile, tokenStore', written)
  /\ storeLog' = [storeLog EXCEPT ![sessionId] = [op |-> "removed", expiresAt |-> 0]]
  /\ UNCHANGED <<isServerless, now, authState>>
  /\ UNCHANGED <<puUrl, puResult, fieldVars, recordVars, routeVars, snapVars, listVars,
                 batchVars, oauthVars>>

\* variant: a token counts as expired only after its expiry instant
Expired_late(t, expiresAt) == t > expiresAt

\* Date.now() >= tokens.expiresAt
Expired(t, expiresAt) == t >= expiresAt

\* the AuthState object returned for sessionId at time t
AuthStateOf(store, sessionId, t) ==
  IF ~store[sessionId].present
  THEN [isAuthenticated |-> FALSE, userId |-> "", expiresAt |-> 0]
  ELSE IF Expired(t, store[sessionId].expiresAt)
  THEN [isAuthenticated |-> FALSE, userId |-> "", expiresAt |-> 0]
  ELSE [isAuthenticated |-> TRUE, userId |-> store[sessionId].userId,
        expiresAt |-> store[sessionId].expiresAt]

\* n counts the calls modulo 2, so that every call changes authState
getAuthState(sessionId) ==
  /\ authState' = [n |-> 1 - authState.n, session |-> sessionId,
                   isAuthenticated |-> AuthStateOf(tokenStore, sessionId, now).isAuthenticated,
                   userId |-> AuthStateOf(tokenStore, sessionId, now).userId,
                   expiresAt |-> AuthStateOf(tokenStore, sessionId, now).expiresAt]
  /\ UNCHANGED <<isServerless, tokenStore, sessionFile, now, storeLog>>
  /\ UNCHANGED <<puUrl, puResult, fieldVars, recordVars, routeVars, snapVars, listVars,
                 batchVars, oauthVars>>

\* time passes
Tick ==
  /\ now < MaxTime
  /\ now' = now + 1
  /\ UNCHANGED <<isServerless, tokenStore, sessionFile, storeLog, authState>>
  /\ UNCHANGED <<puUrl, puResult, fieldVars, recordVars, routeVars, snapVars, listVars,
                 batchVars, oauthVars>>

NextAuth ==
  \/ \E s \in Sessions, e \in 0..MaxTime :
       storeTokens(s, [present |-> TRUE, expiresAt |-> e, userId |-> "u1",
                       userName |-> "User"])
  \/ \E s \in Sessions : removeTokens(s)
  \/ \E s \in Sessions : getAuthState(s)
  \/ Tick

SpecAuth == InitAuth /\ [][NextAuth]_vars

(***************************************************************************)
(* Properties                                                              *)
(***************************************************************************)
CallIdx == 1..Len(calls)

AfterLoopPcs == {"grant_user", "grant_add", "return"}
InSnapshotPcs ==
  {"resolve", "getBase", "createBase", "deleteDefault", "listTables", "tbl_fields",
   "tbl_create", "tbl_refetch", "tbl_records", "tbl_write", "grant_user", "grant_add",
   "return"}

IsFatal(r) == r.targetBase.app_token = "" /\ r.tablesProcessed = 0
Returned == pc \in {"returned", "end"} /\ req.hasUrl /\ req.hasName /\ Authenticated(req)
ReturnedNormally == Returned /\ ~IsFatal(result)

\* table i of the retained list has been left by the loop
TableDone(i) ==
  /\ i \in 1..Len(sourceTables)
  /\ \/ i < tblIdx
     \/ pc \in AfterLoopPcs
     \/ ReturnedNormally

\* the message processTable raised for table i, "" if it returned
RaisedBy(c) ==
  IF c.res = "ok" THEN ""
  ELSE IF c.op \in {"listFields", "listRecords"}
       THEN (IF ListFallbackApplies(c.res) THEN "" ELSE c.res)
       ELSE IF c.op \in {"createTable", "listTargetFields", "batchCreate"} THEN c.res
       ELSE ""

SourceFieldCalls == SelectSeq(calls, LAMBDA c : c.op = "listFields")

C2_TableFailureIsolated ==
  /\ \A k \in 1..Len(SourceFieldCalls) : SourceFieldCalls[k].tbl = k
  /\ \A i \in 1..Len(sourceTables) :
       TableDone(i) =>
         /\ Len(SourceFieldCalls) >= i
         /\ \A k \in CallIdx :
              (calls[k].tbl = i /\ RaisedBy(calls[k]) # "") =>
                \E e \in 1..Len(errors) :
                  /\ errors[e].table = sourceTables[i].name
                  /\ errors[e].message = "Failed to process table: " \o RaisedBy(calls[k])
  /\ (pc \in AfterLoopPcs \/ ReturnedNormally) => Len(SourceFieldCalls) = Len(sourceTables)
  /\ ReturnedNormally => result.errors = errors

\* the first table failed at table creation and the second one was copied
C2_Witness ==
  /\ pc = "returned"
  /\ Len(sourceTables) = 2
  /\ \E k \in CallIdx : calls[k].tbl = 1 /\ calls[k].op = "createTable" /\ calls[k].res = EHttp
  /\ \E k \in CallIdx : calls[k].tbl = 2 /\ calls[k].op = "batchCreate" /\ calls[k].res = "ok"
  /\ result.recordsProcessed = BATCH_SIZE + 1
  /\ result.errors = <<[table |-> "T1", message |-> "Failed to process table: " \o EHttp]>>

\* the message of the failed top-level setup step, "" if none failed
SetupFailure ==
  IF Returned /\ sourceAppToken = ""
  THEN EInvalidUrl
  ELSE IF \E k \in CallIdx : calls[k].op \in {"getBase", "createBase"} /\ calls[k].res # "ok"
       THEN calls[CHOOSE k \in CallIdx :
                    calls[k].op \in {"getBase", "createBase"} /\ calls[k].res # "ok"].res
       ELSE ""

\* C3: when resolving the source token, fetching the source Base or
\* creating the target Base fails, the result has success = false, empty
\* app tokens in both descriptors, all three counts 0 and exactly one error
\* entry, which carries the failure message.
C3_SetupFailureFatal ==
  (Returned /\ SetupFailure # "") =>
     /\ result.success = FALSE
     /\ result.sourceBase.app_token = ""
     /\ result.targetBase.app_token = ""
     /\ result.tablesProcessed = 0
     /\ result.recordsProcessed = 0
     /\ result.fieldsConverted = 0
     /\ Len(result.errors) = 1
     /\ result.errors[1].message = SetupFailure

\* the creation of the target Base timed out
C3_Witness ==
  /\ pc = "returned"
  /\ Len(calls) >= 2
  /\ calls[Len(calls)].op = "createBase"
  /\ calls[Len(calls)].res = ETimeout
  /\ calls[Len(calls) - 1].op = "getBase"
  /\ result.errors = <<[table |-> "", message |-> ETimeout]>>

GrantFailed ==
  \E k \in CallIdx :
    calls[k].op \in {"getCurrentUser", "addCollaborator"} /\ calls[k].res # "ok"

\* C4: when grantAdminPermission is requested and fetching the current
\* user or the collaborator grant call fails, the failure is an entry of
\* the result's errors (so success is false), and the result still carries
\* the real descriptors and the counts of the replication.
C4_GrantFailureRecorded ==
  (ReturnedNormally /\ config.grantAdminPermission /\ GrantFailed) =>
     /\ \E e \in 1..Len(result.errors) : result.errors[e].table = ""
     /\ result.success = FALSE
     /\ result.targetBase.app_token = targetBase.app_token
     /\ result.tablesProcessed = Len(sourceTables)

\* C5: every POST /api/snapshot that passes authentication and carries
\* both sourceBaseUrl and targetBaseName is answered 200 with the snapshot
\* result as body, whether the snapshot succeeded, partly failed or failed
\* fatally.
C5_AlwaysOk ==
  (Authenticated(req) /\ req.hasUrl /\ req.hasName /\ http.status # 0) =>
     /\ http.status = 200
     /\ http.body = result
     /\ http.body.tablesProcessed >= 0
     /\ http.body.success = (Len(http.body.errors) = 0)

\* a partly failed snapshot answered 200
C5_Witness ==
  /\ pc = "end"
  /\ http.status = 200
  /\ http.body.success = FALSE
  /\ http.body.tablesProcessed = 2
  /\ Len(http.body.errors) = 1
  /\ http.body.targetBase.app_token # ""

MaxPagesOf(op) == IF op = "fields" THEN MAX_PAGES_FIELDS ELSE MAX_PAGES_RECORDS

\* C6: one invocation of listFields issues at most 10 page requests and
\* one of listRecords at most 100, whatever the server answers; when the
\* cap is hit the operation returns the items accumulated so far.
C6_PageCap ==
  (lsOp \in {"fields", "records"}) =>
     /\ lsRequests <= MaxPagesOf(lsOp)
     /\ (lsRequests = MaxPagesOf(lsOp) /\ lsPc # "raised") =>
          (lsPc = "done" /\ lsResult = lsServed)

\* listRecords stopped by the cap while the server kept sending new tokens
C6_Witness ==
  /\ lsOp = "records"
  /\ lsRequests = MAX_PAGES_RECORDS
  /\ lsPc = "done"
  /\ pageToken # "" /\ pageToken # lsSent
  /\ lsResult = MAX_PAGES_RECORDS

\* C7: every list operation (tables, fields, records) stops paging as
\* soon as a response carries the continuation token that was sent with
\* its request.
C7_SameTokenStops ==
  (lsOp \in {"tables", "fields", "records"} /\ lsRequests > 0
     /\ pageToken # "" /\ pageToken = lsSent) => lsPc # "request"

RECURSIVE Flatten(_)
Flatten(ss) == IF ss = <<>> THEN <<>> ELSE Head(ss) \o Flatten(Tail(ss))

Ceil(n, d) == (n + d - 1) \div d

\* C8: createRecords sends the records in consecutive groups of at most
\* 500: ceil(n/500) requests for n records, and the payloads concatenated
\* in issue order are the input list.
C8_Batching ==
  (crPc \in {"loop", "done", "raised"}) =>
     /\ \A k \in 1..Len(crRequests) : Len(crRequests[k]) \in 1..500
     /\ Flatten(crRequests) = SubSeq(crRecords, 1, Min(crI, Len(crRecords)))
     /\ Len(crRequests) <= Ceil(Len(crRecords), 500)
     /\ crPc = "done" =>
          /\ Len(crRequests) = Ceil(Len(crRecords), 500)
          /\ Flatten(crRequests) = crRecords

\* 1001 records went out as 500 + 500 + 1
C8_Witness ==
  /\ crPc = "done"
  /\ Len(crRecords) = 1001
  /\ Len(crRequests) = 3
  /\ Len(crRequests[3]) = 1

PermissionDenied(msg) == Includes(msg, "1254002") \/ Includes(msg, "permission")

\* C9: only permission-denied errors are absorbed by the fallback listing
\* of fields and records: any other error raised while listing ends up as
\* an error entry for that table carrying that error.
C9_OnlyPermissionAbsorbed ==
  \A i \in 1..Len(sourceTables) :
    TableDone(i) =>
      \A k \in CallIdx :
        (calls[k].tbl = i /\ calls[k].op \in {"listFields", "listRecords"}
           /\ calls[k].res # "ok" /\ ~PermissionDenied(calls[k].res)) =>
          \E e \in 1..Len(errors) :
            errors[e].table \in {sourceTables[i].name, SnapshotTableName(sourceTables[i].name)}

SourceListCalls == {k \in CallIdx : calls[k].op = "listTables" /\ calls[k].tbl = 0}
SourceListRes == calls[CHOOSE k \in SourceListCalls : TRUE].res

NoFieldDefinitions(c) ==
  /\ c.op = "listFields"
  /\ \/ c.res = "ok" /\ c.n = 0
     \/ c.res # "ok" /\ ListFallbackApplies(c.res)

TargetOps == {"createTable", "listTargetFields", "listRecords", "batchCreate"}

ErrorsOfTable(i) ==
  {e \in 1..Len(errors) :
     errors[e].table \in {sourceTables[i].name, SnapshotTableName(sourceTables[i].name)}}

C11_Skipped ==
  \A k \in CallIdx :
    NoFieldDefinitions(calls[k]) =>
      LET i == calls[k].tbl
      IN /\ \A j \in CallIdx : calls[j].tbl = i => calls[j].op \notin TargetOps
         /\ Cardinality(ErrorsOfTable(i)) = 1
         /\ \A e \in ErrorsOfTable(i) : errors[e] = [table |-> SnapshotTableName(sourceTables[i].name),
                                                     message |-> ENoFields]
         /\ i < Len(sourceTables) =>
              /\ tblIdx > i
              /\ k < Len(calls) => calls[k + 1].op = "listFields" /\ calls[k + 1].tbl = i + 1

C11_Step ==
  (calls' # calls /\ NoFieldDefinitions(calls'[Len(calls')])) =>
     /\ Len(errors') = Len(errors) + 1
     /\ SubSeq(errors', 1, Len(errors)) = errors
     /\ totalRecordsProcessed' = totalRecordsProcessed
     /\ fieldsConverted' = fieldsConverted

\* C11: when no field definitions can be retrieved for a source table, the
\* table is skipped with exactly one recorded error: no table is created
\* for it in the target, no records are fetched or written for it, the step
\* adds one error entry and nothing to the record count, and the table
\* after it is processed next.
C11_NoFieldsSkipsTable == []C11_Skipped /\ [][C11_Step]_vars

\* the first table came back without fields, the second one was copied
C11_Witness ==
  /\ pc = "returned"
  /\ Len(sourceTables) = 2
  /\ \E k \in CallIdx : calls[k].tbl = 1 /\ NoFieldDefinitions(calls[k])
  /\ \E k \in CallIdx : calls[k].tbl = 2 /\ calls[k].op = "batchCreate" /\ calls[k].res = "ok"
  /\ result.recordsProcessed = BATCH_SIZE + 1
  /\ result.errors = <<[table |-> SnapshotTableName("T1"), message |-> ENoFields]>>

GrantOps == {"getCurrentUser", "addCollaborator"}

\* C20: the steps of createSnapshot occur in the stated order: the target
\* Base is created only after the source token was resolved and the source
\* Base fetched; the default-table deletion attempt is over before any
\* table is created in the target; a table's records are written only
\* after its target table was created; the current-user fetch and the
\* collaborator grant come after every retained table was attempted.
C20_StepOrder ==
  \A k \in CallIdx :
    /\ calls[k].op = "createBase" =>
         /\ sourceAppToken # ""
         /\ \E j \in 1..(k - 1) : calls[j].op = "getBase" /\ calls[j].res = "ok"
         /\ FirstMatch(config.sourceBaseUrl, "wiki") # "" =>
              \E j \in 1..(k - 1) : calls[j].op = "getWikiNodeInfo"
    /\ calls[k].op = "createTable" =>
         /\ \E j \in 1..(k - 1) : calls[j].op = "listTables" /\ calls[j].tbl = -1
         /\ \A j \in CallIdx : calls[j].op = "deleteTable" => j < k
    /\ calls[k].op = "batchCreate" =>
         \E j \in 1..(k - 1) :
           calls[j].op = "createTable" /\ calls[j].tbl = calls[k].tbl /\ calls[j].res = "ok"
    /\ calls[k].op \in GrantOps =>
         /\ \A i \in 1..Len(sourceTables) :
              \E j \in 1..(k - 1) : calls[j].op = "listFields" /\ calls[j].tbl = i
         /\ \A j \in (k + 1)..Len(calls) : calls[j].op \in GrantOps

\* a wiki URL was resolved, the default table deleted, two tables copied
\* and the grant issued
C20_Witness ==
  /\ pc = "returned"
  /\ Len(sourceTables) = 2
  /\ \E k \in CallIdx : calls[k].op = "getWikiNodeInfo"
  /\ \E k \in CallIdx : calls[k].op = "deleteTable"
  /\ \A i \in 1..2 : \E k \in CallIdx : calls[k].op = "batchCreate" /\ calls[k].tbl = i
  /\ \E k \in CallIdx : calls[k].op = "addCollaborator"

\* the URL has the shape k: some segment of kind k carries a token
HasShape(url, k) == \E i \in 1..Len(url) : url[i].k = k /\ url[i].v # ""

\* tok is the token of the leftmost segment of kind k that carries one
IsLeftmostToken(url, k, tok) ==
  \E i \in 1..Len(url) :
    /\ url[i].k = k /\ url[i].v # "" /\ url[i].v = tok
    /\ \A j \in 1..(i - 1) : ~(url[j].k = k /\ url[j].v # "")

HoldsValidTokens(s, t) == storeLog[s].op = "stored" /\ t < storeLog[s].expiresAt

C18_State ==
  \A s \in Sessions :
    AuthStateOf(tokenStore, s, now).isAuthenticated <=> HoldsValidTokens(s, now)

C18_Call ==
  authState' # authState =>
    /\ authState'.isAuthenticated <=> HoldsValidTokens(authState'.session, now)
    /\ authState'.isAuthenticated => authState'.expiresAt = storeLog[authState'.session].expiresAt

C18_Isolated ==
  \A s \in Sessions :
    (storeLog'[s] = storeLog[s] /\ now' = now) =>
       AuthStateOf(tokenStore', s, now') = AuthStateOf(tokenStore, s, now)

\* C18: after any sequence of storeTokens and removeTokens, getAuthState
\* reports a session authenticated exactly when the last operation on that
\* session id stored tokens and the current time is strictly before their
\* expiry; at or after the expiry, or after removeTokens, it reports
\* unauthenticated; an operation on one session id leaves the state of
\* every other id as it was.
C18_AuthState == []C18_State /\ [][C18_Call /\ C18_Isolated]_vars

\* at the expiry instant of s1's tokens getAuthState answered
\* unauthenticated for s1, while s2, stored and then removed, holds nothing
C18_Witness ==
  /\ authState.n = 1 /\ authState.session = "s1" /\ ~authState.isAuthenticated
  /\ storeLog["s1"].op = "stored" /\ storeLog["s1"].expiresAt = now /\ now = 2
  /\ storeLog["s2"].op = "removed"
  /\ sessionFile = tokenStore

FieldIdx == 1..Len(fetchedFields)

SourceNames == {fetchedFields[i].field_name : i \in FieldIdx}

\* C13: the converted field map of a record contains only keys that are
\* names of source fields and are in the target's re-fetched field-name
\* set, and never a key whose source value is null or absent; a key of the
\* record that names no source field is never copied.
C13_OnlyKnownKeys ==
  rcPc = "done" =>
    /\ \A k \in DOMAIN rcConverted :
         /\ k \in SourceNames
         /\ k \in rcTargetNames
         /\ k \in DOMAIN rcRecord
         /\ rcRecord[k].t # "null"
    /\ \A k \in DOMAIN rcRecord \ SourceNames : k \notin DOMAIN rcConverted

\* the target lacks the first field and has a field named like the
\* record's unlisted key; the second field was copied, the first was not
C13_Witness ==
  /\ rcPc = "done"
  /\ Len(fetchedFields) = 2
  /\ "A" \in DOMAIN rcRecord /\ rcRecord["A"].t = "str" /\ "A" \notin rcTargetNames
  /\ "Extra" \in DOMAIN rcRecord /\ "Extra" \in rcTargetNames
  /\ DOMAIN rcConverted = {"B"}

\* field i is written for the record at hand
Written(i) == fetchedFields[i].field_name \in DOMAIN rcConverted

SourceValue(i) == Get(rcRecord, fetchedFields[i].field_name)

C15_FormulaPassThrough ==
  rcPc = "done" =>
    \A i \in FieldIdx :
      (fetchedFields[i].ui_type = "Formula" /\ Written(i)
         /\ SourceValue(i).t \in {"num", "str"}) =>
           rcConverted[fetchedFields[i].field_name] = SourceValue(i)

\* the first non-empty of name, en_name, id of one user object
FirstNonEmpty(user) ==
  IF user.o.name \notin {Absent, ""} THEN user.o.name
  ELSE IF user.o.en_name \notin {Absent, ""} THEN user.o.en_name
  ELSE user.o.id

\* C16: a single User / CreatedUser / ModifiedUser value is written as its
\* name if that is non-empty, else its en_name if that is non-empty, else
\* its id; an array is written as the per-element results joined with
\* ", " in the original order.
C16_UserText ==
  rcPc = "done" =>
    \A i \in FieldIdx :
      LET v == SourceValue(i)
          w == rcConverted[fetchedFields[i].field_name]
      IN (fetchedFields[i].ui_type \in {"User", "CreatedUser", "ModifiedUser"} /\ Written(i)) =>
           /\ v.t = "obj" => w = VStr(FirstNonEmpty(v))
           /\ v.t = "arr" =>
                w = VStr(JoinStr([j \in 1..Len(v.a) |-> FirstNonEmpty(v.a[j])], ", "))

\* an array of three users, one with a name, one with an id only, one
\* with an empty name and an en_name
C16_Witness ==
  /\ rcPc = "done"
  /\ fetchedFields[1].ui_type = "CreatedUser"
  /\ rcRecord["A"] = VArr(<<UserAnn, UserId, UserEn>>)
  /\ rcConverted["A"] = VStr("Ann, u3, Bob E")

C19_State ==
  cfPc = "converted" =>
    /\ \A a \in FieldIdx : objHeap[a] = fetchedHeap[a]
    /\ \A i \in FieldIdx :
         /\ convertedFields[i].ref \notin {fetchedFields[j].ref : j \in FieldIdx}
         /\ convertedFields[i].property \notin {fetchedFields[j].property : j \in FieldIdx} \ {0}

C19_Step ==
  /\ fetchedFields' = fetchedFields
  /\ rcPc = "fetched" => rcRecord' = rcRecord

\* C19: the conversions never change what was fetched: after
\* convertFieldDefinitions and convertRecordValues every source field
\* definition is as it was (name, type, ui_type, the property bag with its
\* link keys, the select options with their ids), the source record is as
\* it was, and each converted definition is a new object with a property
\* bag of its own.
C19_SourceUntouched == []C19_State /\ [][C19_Step]_vars

\* a select field's options still have their ids and a link-keyed bag
\* still has its table_id, while the converted bags have neither
C19_Witness ==
  /\ rcPc = "done"
  /\ Len(fetchedFields) = 2
  /\ fetchedFields[1].ui_type = "SingleSelect" /\ objHeap[1].options[1].id = "opt1"
  /\ fetchedFields[2].ui_type = "Text" /\ objHeap[2].table_id = "tblX"
  /\ convertedFields[1].property # 0
  /\ objHeap[convertedFields[1].property].options = <<Option(Absent, "Open", 0),
                                                      Option(Absent, "Done", 2)>>
  /\ convertedFields[2].property = 0

\* C21: a list operation issues no further page request after a response
\* whose has_more is false, even when that response carries a continuation
\* token: every request but the first follows a response with has_more.
C21_StopsAtLastPage ==
  [][lsRequests' # lsRequests => (lsRequests = 0 \/ lsHasMore)]_vars

\* C22: every field definition passed to table creation is static: for
\* every source field, also one without a symbolic type, the converted
\* type code is neither a dynamic one (11, 17, 18, 19, 20, 21, 1003, 1004)
\* nor one of the type codes unsupported for creation.
C22_ConvertedIsStatic ==
  cfPc = "converted" =>
    \A i \in FieldIdx :
      convertedFields[i].type \notin
        ({11, 17, 18, 19, 20, 21, 1003, 1004} \cup UNSUPPORTED_TYPE_NUMBERS)

\* the symbolic type that belongs to a dynamic type code
TagOfCode(code) ==
  IF code \in {11, 1003, 1004} THEN "User"
  ELSE IF code \in {18, 21} THEN "SingleLink"
  ELSE IF code = 19 THEN "Lookup"
  ELSE "Formula"

\* what is written for value v of a dynamic field with symbolic type tag
WrittenByRule(v, tag) ==
  IF convertDynamicValue(v, tag).t = "num"
  THEN VStr(StringOf(convertDynamicValue(v, tag)))
  ELSE convertDynamicValue(v, tag)

\* C23: a field that is dynamic by its type code only (no symbolic type)
\* has its values converted by the rule of that code, as if the symbolic
\* type were there: 11/1003/1004 as users, 18/21 as links, 19 as a lookup,
\* 20 as a formula.
C23_CodeOnlyRule ==
  rcPc = "done" =>
    \A i \in FieldIdx :
      LET f == fetchedFields[i]
      IN (f.ui_type = Absent /\ f.type \in {11, 18, 19, 20, 21, 1003, 1004} /\ Written(i)) =>
           rcConverted[f.field_name] = WrittenByRule(SourceValue(i), TagOfCode(f.type))

\* the first of text, value, name, en_name of an object that is present,
\* not null and not empty; "" if there is none
FirstPresentText(o) ==
  IF o.text \notin {Absent, ""} THEN o.text
  ELSE IF o.value \notin {Absent, NullProp, ""} THEN o.value
  ELSE IF o.name \notin {Absent, ""} THEN o.name
  ELSE IF o.en_name \notin {Absent, ""} THEN o.en_name
  ELSE ""

\* C24: generic text extraction from an object yields the first of text,
\* the extraction of value, name, en_name that is present and non-empty; a
\* candidate that is present but empty (or null) is passed over.  Checked
\* where a Lookup or Formula object value is written, which is its
\* extracted text.
C24_FirstNonEmptyText ==
  rcPc = "done" =>
    \A i \in FieldIdx :
      LET f == fetchedFields[i]
          v == SourceValue(i)
      IN (f.ui_type \in {"Lookup", "Formula"} /\ Written(i) /\ v.t = "obj"
            /\ FirstPresentText(v.o) # "") =>
           rcConverted[f.field_name] = VStr(FirstPresentText(v.o))

\* C27: the two conversions agree: whenever a value is written for a field
\* whose definition was rewritten, it is a string if the definition became
\* Text and a number if it became Number.
C27_DefinitionAndValueAgree ==
  rcPc = "done" =>
    \A i \in FieldIdx :
      LET f == fetchedFields[i]
          c == convertedFields[i]
      IN (Written(i) /\ (c.type # f.type \/ c.ui_type # f.ui_type)) =>
           /\ c.ui_type = "Text" => rcConverted[f.field_name].t = "str"
           /\ c.ui_type = "Number" => rcConverted[f.field_name].t = "num"

\* C28: if createSnapshot returns the fatal result, no target Base was
\* created during the call; whenever one was created, the returned result
\* carries its app token.
C28_FatalMeansNoTarget ==
  Returned =>
    /\ IsFatal(result) => \A k \in CallIdx : ~(calls[k].op = "createBase" /\ calls[k].res = "ok")
    /\ (\E k \in CallIdx : calls[k].op = "createBase" /\ calls[k].res = "ok") =>
         result.targetBase.app_token # ""

RECURSIVE RecordsWritten(_)
\* the records of the batch-create requests of a call log that succeeded
RecordsWritten(log) ==
  IF log = <<>> THEN 0
  ELSE (IF Head(log).op = "batchCreate" /\ Head(log).res = "ok" THEN Head(log).n ELSE 0)
         + RecordsWritten(Tail(log))

\* C29: in every non-fatal result recordsProcessed is the number of
\* records that successful batch-create requests wrote during the call,
\* also when a table's batch-create fails after earlier batches of it were
\* accepted.
C29_RecordsProcessedIsWritten ==
  ReturnedNormally => result.recordsProcessed = RecordsWritten(calls)

(***************************************************************************)
(* POST /api/snapshot/preview                                              *)
(***************************************************************************)
InitPreview ==
  /\ req \in {[session |-> s, tokens |-> t, hasUrl |-> u, hasName |-> n] :
               s \in BOOLEAN, t \in {"none", "valid", "expired"}, u \in BOOLEAN,
               n \in BOOLEAN}
  /\ http = NoResponse
  /\ pc = "preview"
  /\ config \in [sourceBaseUrl : Urls, grantAdminPermission : {FALSE},
                  selectedTableIds : {{}}]
  /\ Idle({"oauth", "snap", "list", "batch", "url", "fields", "record", "auth"})

\* the whole handler: the two cookie/token tests, the body test, then
\* resolveBaseAppToken, getBase, listTablesWithFallback and one
\* listFieldsWithFallback per table (all started by Promise.all), answered
\* 200 with the counts or 500 by the catch.  ow, ob, o1, o2 and of are the
\* outcomes of the requests, in that order.
PostPreview ==
  /\ pc = "preview"
  /\ pc' = "end"
  /\ IF ~req.session \/ req.tokens = "none"
     THEN http' = [status |-> 401, body |-> NoResult] /\ calls' = calls
     ELSE IF ~req.hasUrl
     THEN http' = [status |-> 400, body |-> NoResult] /\ calls' = calls
     ELSE \E ow \in PlainOutcomes, ob \in Outcomes, o2 \in Outcomes,
             o1 \in {Err(m) : m \in VendorErrors} \cup {Ok(l) : l \in TableLists},
             of \in [1..MaxTables -> LoopListErrs \cup {Ok(l) : l \in FieldLists}] :
       LET url == config.sourceBaseUrl
           isWiki == FirstMatch(url, "wiki") # ""
           app == resolveBaseAppToken(url, ow)
           tid == parseTableIdFromUrl(url)
           useFallback == ~o1.ok /\ TablesFallbackApplies(o1.msg, tid)
           tables == listTablesWithFallback(o1, o2, tid)
           n == IF tables.ok THEN Len(tables.items) ELSE 0
           fields(i) == listFieldsWithFallback(of[i])
           dynamicFieldCount(i) ==
             Cardinality({k \in 1..Len(fields(i).items) :
                            fields(i).items[k].ui_type \in
                              {"SingleLink", "DuplexLink", "Lookup", "Formula", "User"}})
           RECURSIVE Sum(_)
           Sum(i) == IF i = 0 THEN 0 ELSE dynamicFieldCount(i) + Sum(i - 1)
           wikiCalls == IF isWiki THEN <<Call("getWikiNodeInfo", 0, ow, 0)>> ELSE <<>>
           baseCalls == IF app.ok THEN <<Call("getBase", 0, ob, 0)>> ELSE <<>>
           listCalls ==
             IF ~app.ok \/ ob # "ok" THEN <<>>
             ELSE IF useFallback
             THEN <<Call("listTables", 0, ResOf(o1), 0), Call("getTable", 0, o2, 0)>>
             ELSE <<Call("listTables", 0, ResOf(o1), Len(o1.items))>>
           fieldCalls ==
             IF ~app.ok \/ ob # "ok" THEN <<>>
             ELSE [i \in 1..n |-> Call("listFields", i, ResOf(of[i]), Len(of[i].items))]
           raised == \/ ~app.ok \/ ob # "ok" \/ ~tables.ok
                     \/ \E i \in 1..n : ~fields(i).ok
       IN /\ (~isWiki => ow = "ok")
          /\ (~app.ok => ob = "ok")
          /\ (~app.ok \/ ob # "ok" => o1 = Ok(<<>>))
          /\ (~useFallback => o2 = "ok")
          /\ \A i \in 1..MaxTables : i > n => of[i] = Ok(<<>>)
          /\ calls' = wikiCalls \o baseCalls \o listCalls \o fieldCalls
          /\ http' = IF raised
                     THEN [status |-> 500, body |-> NoResult]
                     ELSE [status |-> 200,
                           body |-> [base |-> [name |-> "Source", appToken |-> app.val],
                                     tables |-> [i \in 1..n |->
                                                   [name |-> tables.items[i].name,
                                                    tableId |-> tables.items[i].table_id,
                                                    fieldCount |-> Len(fields(i).items),
                                                    dynamicFieldCount |-> dynamicFieldCount(i)]],
                                     totalTables |-> n,
                                     totalDynamicFields |-> Sum(n)]]
  /\ UNCHANGED <<req, config, sourceAppToken, tableIdFromUrl, sourceBase, targetBase,
                 sourceTables, listedTables, tblIdx, sourceFields, errors, fieldsConverted,
                 totalRecordsProcessed, currentUser, result>>
  /\ UNCHANGED <<unitVars, listVars, batchVars>>

SpecPreview == InitPreview /\ [][PostPreview]_vars

\* C25: a request whose stored token has expired is answered 401 by the
\* snapshot endpoint and by the preview endpoint, and no vendor request has
\* been issued for it
C25_ExpiredIsUnauthenticated ==
  (pc = "end" /\ req.session /\ req.tokens = "expired")
    => (http.status = 401 /\ calls = <<>>)

(***************************************************************************)
(* OAuth routes (login, callback, status, logout) and the session test of  *)
(* the snapshot routes.  Time is counted in units of five minutes, so the   *)
(* ten minutes an OAuth state stays valid are 2 units.                     *)
(***************************************************************************)
\* values crypto.randomBytes(16) can return
OAuthStates == {"st1", "st2"}

\* the browser and its cookie jar
Clients == {"c1"}

\* a browser may still hold the session_id cookie of the persisted session
InitSession ==
  /\ Idle({"route", "snap", "list", "batch", "url", "fields", "record"})
  /\ isServerless \in BOOLEAN
  /\ sessionFile \in
       {EmptyStore,
        [EmptyStore EXCEPT !["s1"] = [present |-> TRUE, expiresAt |-> 2, userId |-> "u1",
                                      userName |-> "User"]]}
  /\ tokenStore = loadSessions(isServerless, sessionFile)
  /\ now = 0
  /\ storeLog = [s \in Sessions |->
                   [op |-> IF loadSessions(isServerless, sessionFile)[s].present
                           THEN "stored" ELSE "none",
                    expiresAt |-> loadSessions(isServerless, sessionFile)[s].expiresAt]]
  /\ authState = [n |-> 0, session |-> "", isAuthenticated |-> FALSE, userId |-> "",
                  expiresAt |-> 0]
  /\ stateStore = {}
  /\ cookies = [c \in Clients |->
                  [session_id |-> IF c = "c1" /\ sessionFile["s1"].present THEN "s1" ELSE "",
                   oauth_state |-> {}, lark_auth |-> NoTokens]]
  /\ pending = {}
  /\ oauthLog = [issued |-> [st \in OAuthStates |-> ""],
                 accepted |-> [st \in OAuthStates |-> 0],
                 stored |-> [s \in Sessions |-> {}]]

\* GET /login.  randomUUID and randomBytes return values not seen before.
Login(c) ==
  /\ \E sid \in Sessions, st \in OAuthStates :
       LET entry == [state |-> st, sessionId |-> sid, createdAt |-> now]
       IN /\ ~sessionFile[sid].present /\ ~tokenStore[sid].present
          /\ \A s \in OAuthStates : oauthLog.issued[s] # sid
          /\ oauthLog.issued[st] = ""
          /\ IF isServerless
             THEN /\ cookies' = [cookies EXCEPT ![c].oauth_state = {entry}]
                  /\ stateStore' = stateStore
             ELSE /\ stateStore' = {e \in stateStore \cup {entry} :
                                      ~(e.createdAt < now - 2)}
                  /\ cookies' = [cookies EXCEPT ![c].session_id = sid]
          /\ oauthLog' = [oauthLog EXCEPT !.issued[st] = sid]
          /\ http' = [status |-> 302, body |-> [route |-> "login", state |-> st]]
  /\ UNCHANGED <<req, pending, authVars, snapVars, listVars, batchVars, puUrl, puResult,
                 fieldVars, recordVars>>

\* variant: the state stays in the store after it has been accepted
AcceptState_keep(store, st) == store

\* stateStore.delete(state)
AcceptState(store, st) == {e \in store : e.state # st}

\* GET /callback up to the await of the code exchange; hasParams: the query
\* carries a code and a state, st
Callback(c, st, hasParams) ==
  LET invalid == /\ http' = [status |-> 400, body |-> [route |-> "callback", state |-> st]]
                 /\ UNCHANGED <<stateStore, cookies, pending, oauthLog>>
      accept(sessionId) ==
        /\ pending' = pending \cup {[client |-> c, sessionId |-> sessionId, state |-> st]}
        /\ oauthLog' = [oauthLog EXCEPT !.accepted[st] = @ + 1]
        /\ http' = http
  IN /\ IF ~hasParams THEN invalid
        ELSE IF isServerless
        THEN IF cookies[c].oauth_state = {} THEN invalid
             ELSE LET storedState == CHOOSE e \in cookies[c].oauth_state : TRUE
                  IN IF storedState.state # st THEN invalid
                     ELSE IF now - storedState.createdAt > 2 THEN invalid
                     ELSE /\ accept(storedState.sessionId)
                          /\ cookies' = [cookies EXCEPT ![c].oauth_state = {}]
                          /\ stateStore' = stateStore
        ELSE IF ~\E e \in stateStore : e.state = st THEN invalid
             ELSE LET storedState == CHOOSE e \in stateStore : e.state = st
                  IN /\ stateStore' = AcceptState(stateStore, st)
                     /\ accept(storedState.sessionId)
                     /\ cookies' = cookies
     /\ UNCHANGED <<req, authVars, snapVars, listVars, batchVars, puUrl, puResult,
                    fieldVars, recordVars>>

\* GET /callback from exchangeCodeForTokens on; ok: the exchange succeeded,
\* life: the lifetime of the access token
Exchange ==
  \E p \in pending, ok \in BOOLEAN, life \in 1..2, written \in BOOLEAN :
    LET tokens == [present |-> TRUE, expiresAt |-> now + life, userId |-> "u1",
                   userName |-> "User"]
    IN /\ (~ok => life = 1)
       /\ (~ok \/ isServerless => written)
       /\ pending' = pending \ {p}
       /\ IF ok /\ isServerless
          THEN /\ cookies' = [cookies EXCEPT ![p.client].lark_auth = tokens]
               /\ UNCHANGED <<tokenStore, sessionFile, storeLog, oauthLog>>
          ELSE IF ok
          THEN /\ tokenStore' = [tokenStore EXCEPT ![p.sessionId] = tokens]
               /\ sessionFile' = saveSessions(isServerless, sessionFile, tokenStore', written)
               /\ storeLog' = [storeLog EXCEPT ![p.sessionId] =
                                 [op |-> "stored", expiresAt |-> tokens.expiresAt]]
               /\ oauthLog' = [oauthLog EXCEPT !.stored[p.sessionId] = @ \cup {p.state}]
               /\ cookies' = cookies
          ELSE UNCHANGED <<cookies, tokenStore, sessionFile, storeLog, oauthLog>>
       /\ http' = [status |-> 302,
                   body |-> [route |-> "callback", state |-> p.state,
                             login |-> IF ok THEN "success" ELSE "error"]]
       /\ UNCHANGED <<req, stateStore, isServerless, now, authState, snapVars, listVars,
                      batchVars, puUrl, puResult, fieldVars, recordVars>>

\* the body GET /status answers to client c
StatusOf(c) ==
  LET no == [isAuthenticated |-> FALSE, userId |-> "", expiresAt |-> 0]
      tokens == cookies[c].lark_auth
  IN IF isServerless
     THEN IF ~tokens.present THEN no
          ELSE IF Expired(now, tokens.expiresAt) THEN no
          ELSE [isAuthenticated |-> TRUE, userId |-> tokens.userId,
                expiresAt |-> tokens.expiresAt]
     ELSE IF cookies[c].session_id = "" THEN no
     ELSE AuthStateOf(tokenStore, cookies[c].session_id, now)

GetStatus(c) ==
  /\ http' = [status |-> 200, body |-> [route |-> "status", client |-> c,
                                        authState |-> StatusOf(c)]]
  /\ UNCHANGED <<req, oauthVars, authVars, snapVars, listVars, batchVars, puUrl, puResult,
                 fieldVars, recordVars>>

\* what the snapshot routes read from the request of client c:
\* req.cookies?.session_id, authService.getTokens(sessionId) and the body
RequestOf(c, hasUrl, hasName) ==
  LET sessionId == cookies[c].session_id
  IN [session |-> sessionId # "",
      tokens |-> IF sessionId = "" THEN "none"
                 ELSE IF ~tokenStore[sessionId].present THEN "none"
                 ELSE IF Expired(now, tokenStore[sessionId].expiresAt) THEN "expired"
                 ELSE "valid",
      hasUrl |-> hasUrl, hasName |-> hasName]

\* the tests of POST / and POST /preview that answer 401
Unauthorized(r, path) ==
  \/ ~r.session
  \/ r.tokens = "none"
  \/ path = "/" /\ r.tokens = "expired"

\* POST /api/snapshot and POST /api/snapshot/preview from client c.  What
\* the handlers do for an authorized request is the subject of Spec and
\* SpecPreview; here it is taken by its status.
PostSnapshotFrom(c, path) ==
  /\ \E hasUrl \in BOOLEAN, hasName \in BOOLEAN, status \in {200, 500} :
       http' = [status |-> IF Unauthorized(RequestOf(c, hasUrl, hasName), path) THEN 401
                           ELSE IF ~hasUrl \/ (path = "/" /\ ~hasName) THEN 400
                           ELSE status,
                body |-> [route |-> path, client |-> c]]
  /\ UNCHANGED <<req, oauthVars, authVars, snapVars, listVars, batchVars, puUrl, puResult,
                 fieldVars, recordVars>>

\* POST /logout
Logout(c) ==
  /\ IF isServerless
     THEN /\ cookies' = [cookies EXCEPT ![c].lark_auth = NoTokens]
          /\ UNCHANGED <<tokenStore, sessionFile, storeLog>>
     ELSE /\ cookies' = [cookies EXCEPT ![c].session_id = ""]
          /\ IF cookies[c].session_id # ""
             THEN /\ tokenStore' = [tokenStore EXCEPT ![cookies[c].session_id] = NoTokens]
                  /\ \E written \in BOOLEAN :
                       sessionFile' = saveSessions(isServerless, sessionFile, tokenStore',
                                                   written)
                  /\ storeLog' = [storeLog EXCEPT ![cookies[c].session_id] =
                                    [op |-> "removed", expiresAt |-> 0]]
             ELSE UNCHANGED <<tokenStore, sessionFile, storeLog>>
  /\ http' = [status |-> 200, body |-> [route |-> "logout", client |-> c]]
  /\ UNCHANGED <<req, stateStore, pending, oauthLog, isServerless, now, authState, snapVars,
                 listVars, batchVars, puUrl, puResult, fieldVars, recordVars>>

NextSession ==
  \/ \E c \in Clients : Login(c)
  \/ \E c \in Clients, st \in OAuthStates, hasParams \in BOOLEAN : Callback(c, st, hasParams)
  \/ Exchange
  \/ \E c \in Clients : GetStatus(c)
  \/ \E c \in Clients, path \in {"/", "/preview"} : PostSnapshotFrom(c, path)
  \/ \E c \in Clients : Logout(c)
  \/ Tick

SpecSession == InitSession /\ [][NextSession]_vars

\* C26: a client whose status answer says isAuthenticated = true is not
\* answered 401 by POST /api/snapshot nor by POST /api/snapshot/preview, in
\* the standalone and in the serverless mode
C26_StatusAgreesWithSnapshot ==
  \A c \in Clients :
    StatusOf(c).isAuthenticated =>
      \A path \in {"/", "/preview"}, u \in BOOLEAN, n \in BOOLEAN :
        ~Unauthorized(RequestOf(c, u, n), path)

\* C30: in the standalone mode a state is accepted by the callback at most
\* once and only if login issued it, a callback with a state that was never
\* issued is answered 400, and tokens are stored only under the session id
\* generated together with a state that was accepted
C30_StateAcceptedOnce ==
  ~isServerless =>
    /\ \A st \in OAuthStates :
         /\ oauthLog.accepted[st] <= 1
         /\ oauthLog.accepted[st] > 0 => oauthLog.issued[st] # ""
    /\ \A s \in Sessions : \A st \in oauthLog.stored[s] :
         oauthLog.issued[st] = s /\ oauthLog.accepted[st] = 1
    /\ (http.status # 0 /\ http.body.route = "callback"
          /\ oauthLog.issued[http.body.state] = "") => http.status = 400

\* tokens were stored for an accepted state and its replay was answered 400
C30_Witness ==
  /\ ~isServerless
  /\ http.status = 400 /\ http.body.route = "callback"
  /\ oauthLog.accepted[http.body.state] = 1
  /\ http.body.state \in oauthLog.stored[oauthLog.issued[http.body.state]]
  /\ tokenStore[oauthLog.issued[http.body.state]].present

====
